---------------------------- MODULE Spec2Model ----------------------------
(***************************************************************************)
(* Model of the screen_bpm calibration and beam-geometry engine.           *)
(*                                                                         *)
(* Every Python function of the engine is a pure function of its arguments *)
(* (plus, possibly, a mutation of an argument object).  Each function is   *)
(* an operator here; each specification draws the arguments of one group   *)
(* of functions from bounded sets in its Init and applies the functions in *)
(* its actions.                                                            *)
(*                                                                         *)
(* Numbers.  A float64 is modelled by an exact rational <<n, d>> in lowest *)
(* terms with d > 0, extended by the IEEE special values that numpy        *)
(* produces (with a RuntimeWarning, never an exception) on a division by   *)
(* zero: <<1, 0>> = +inf, <<-1, 0>> = -inf, <<0, 0>> = nan.  Rounding of   *)
(* float64 results is not modelled: equalities between numbers are         *)
(* equalities over the rationals.  An int64 array element is a rational    *)
(* with d = 1; the dtype of an array is kept beside its values.            *)
(***************************************************************************)
EXTENDS Integers, Sequences, FiniteSets, TLC

VARIABLES calls,   \* sequence of the names of the functions called so far
          heap0,   \* the argument objects as they were when created
          heap,    \* the argument objects now (a call may have mutated them)
          ret      \* outcome of the last call: [ok, val] or [ok, err]

vars == <<calls, heap0, heap, ret>>

\* A normal return with value v.
Ok(v) == [ok |-> TRUE, val |-> v]

\* A raised exception named e.
Err(e) == [ok |-> FALSE, err |-> e]

\* No call has been made yet.
NoRet == [ok |-> TRUE, val |-> <<>>]

(***************************************************************************)
(* float64 arithmetic (idealised: exact rationals, inf, nan)               *)
(***************************************************************************)
Abs(k) == IF k < 0 THEN -k ELSE k

Sgn(k) == IF k < 0 THEN -1 ELSE IF k > 0 THEN 1 ELSE 0

RECURSIVE Gcd(_, _)
Gcd(a, b) == IF b = 0 THEN a ELSE Gcd(b, a % b)

\* The number n/d in canonical form; d = 0 gives inf, -inf or nan.
Q(n, d) ==
    LET Reduced(g, s) == <<(s * n) \div g, (s * d) \div g>>
    IN  IF d = 0 THEN <<Sgn(n), 0>>
        ELSE Reduced(Gcd(Abs(n), Abs(d)), Sgn(d))

\* The integer k as a number.
I(k) == <<k, 1>>

NaN == <<0, 0>>

IsNaN(a) == a = NaN

IsFinite(a) == a[2] # 0

Neg(a) == <<-a[1], a[2]>>

Add(a, b) ==
    IF a[2] = 0 /\ b[2] = 0
    THEN (IF a = b THEN a ELSE NaN)
    ELSE IF a[2] = 0 THEN a
    ELSE IF b[2] = 0 THEN b
    ELSE LET Sum(g) ==
                 Q(a[1] * (b[2] \div g) + b[1] * (a[2] \div g), (a[2] \div g) * b[2])
         IN  Sum(Gcd(a[2], b[2]))

Sub(a, b) == Add(a, Neg(b))

Mul(a, b) ==
    IF a[2] = 0 \/ b[2] = 0 THEN <<Sgn(a[1]) * Sgn(b[1]), 0>>
    ELSE LET Product(g, h) ==
                 Q((a[1] \div g) * (b[1] \div h), (a[2] \div h) * (b[2] \div g))
         IN  Product(Gcd(Abs(a[1]), b[2]), Gcd(Abs(b[1]), a[2]))

\* numpy true division: x/0 is inf, -inf or nan, not an exception.
Div(a, b) ==
    IF b[2] = 0 THEN (IF a[2] = 0 \/ b[1] = 0 THEN NaN ELSE I(0))
    ELSE IF b[1] = 0 \/ a[2] = 0
    THEN <<Sgn(a[1]) * (IF b[1] < 0 THEN -1 ELSE 1), 0>>
    ELSE Mul(a, IF b[1] < 0 THEN <<-b[2], -b[1]>> ELSE <<b[2], b[1]>>)

\* Assignment of a float64 to an element of an int64 array: truncation
\* towards zero.
Trunc(a) ==
    IF a[1] >= 0 THEN I(a[1] \div a[2]) ELSE I(-((-a[1]) \div a[2]))

IsInteger(a) == a[2] = 1

(***************************************************************************)
(* Sequences                                                               *)
(***************************************************************************)
RECURSIVE Concat(_)
Concat(ss) == IF ss = <<>> THEN <<>> ELSE Head(ss) \o Concat(Tail(ss))

\* All sequences over S of length exactly n.
SeqsOfLen(S, n) == [1..n -> S]

(***************************************************************************)
(* Calibration dictionaries  (calibration.py)                              *)
(*                                                                         *)
(* A Python dict keeps insertion order: a calibration is the sequence of   *)
(* its items [name, fields], fields the sequence of items [key, isint, v]. *)
(* isint says that every element of the field is a Python int, so that     *)
(* numpy.array(values) has dtype int64; v holds the element values.  A     *)
(* mask has the same shape with v a sequence of booleans.                  *)
(***************************************************************************)
\* Index of the item of dict d stored under screen name k; 0 when there is
\* none (a KeyError).
FindName(d, k) ==
    IF \E j \in 1..Len(d) : d[j].name = k
    THEN CHOOSE j \in 1..Len(d) : d[j].name = k /\ \A h \in 1..(j-1) : d[h].name # k
    ELSE 0

\* Index of the item of dict d stored under field key k; 0 when there is
\* none (a KeyError).
FindKey(d, k) ==
    IF \E j \in 1..Len(d) : d[j].key = k
    THEN CHOOSE j \in 1..Len(d) : d[j].key = k /\ \A h \in 1..(j-1) : d[h].key # k
    ELSE 0

\* calibration_mask[screen_name][key][i] (i counted from 1 here).
MaskAt(mask, name, key, i) ==
    LET s == FindName(mask, name)
    IN  IF s = 0 THEN Err("KeyError")
        ELSE LET f == FindKey(mask[s].fields, key)
             IN  IF f = 0 THEN Err("KeyError")
                 ELSE IF i > Len(mask[s].fields[f].v) THEN Err("IndexError")
                 ELSE Ok(mask[s].fields[f].v[i])

\* The (screen, field, element) positions of a dict of dicts of vectors in
\* the order of the three nested for loops over it.
FieldPositions(d, s, f) == [i \in 1..Len(d[s].fields[f].v) |-> <<s, f, i>>]

ScreenPositions(d, s) ==
    Concat([f \in 1..Len(d[s].fields) |-> FieldPositions(d, s, f)])

Positions(d) == Concat([s \in 1..Len(d) |-> ScreenPositions(d, s)])

\* The loop of calibration_to_array from position k on; acc is
\* calibration_array.
RECURSIVE CalibrationToArrayLoop(_, _, _, _, _)
CalibrationToArrayLoop(calibrations, calibration_mask, pos, k, acc) ==
    IF k > Len(pos) THEN Ok(acc)
    ELSE LET p == pos[k]
             field == calibrations[p[1]].fields[p[2]]
             m == MaskAt(calibration_mask, calibrations[p[1]].name, field.key, p[3])
         IN  IF ~m.ok THEN m
             ELSE CalibrationToArrayLoop(calibrations, calibration_mask, pos, k + 1,
                      IF m.val THEN Append(acc, field.v[p[3]]) ELSE acc)

\* calibration_to_array(calibrations, calibration_mask): a float64 array.
CalibrationToArray(calibrations, calibration_mask) ==
    CalibrationToArrayLoop(calibrations, calibration_mask,
                           Positions(calibrations), 1, <<>>)

\* new_values[i] = calibration_array[0] for an array of the given dtype.
StoreElement(isint, x) == IF isint THEN Trunc(x) ELSE x

\* The loop of array_to_calibration from position k on; cal is the deep
\* copy being filled in, arr what is left of calibration_array.
RECURSIVE ArrayToCalibrationLoop(_, _, _, _, _)
ArrayToCalibrationLoop(cal, calibration_mask, pos, k, arr) ==
    IF k > Len(pos) THEN Ok(cal)
    ELSE LET p == pos[k]
             field == cal[p[1]].fields[p[2]]
             m == MaskAt(calibration_mask, cal[p[1]].name, field.key, p[3])
         IN  IF ~m.ok THEN m
             ELSE IF ~m.val
             THEN ArrayToCalibrationLoop(cal, calibration_mask, pos, k + 1, arr)
             ELSE IF arr = <<>> THEN Err("IndexError")
             ELSE ArrayToCalibrationLoop(
                      [cal EXCEPT ![p[1]].fields[p[2]].v[p[3]] =
                                      StoreElement(field.isint, Head(arr))],
                      calibration_mask, pos, k + 1, Tail(arr))

\* array_to_calibration that always takes element 0 and never advances the
\* array.
ArrayToCalibrationNoAdvance(calibration_array, calibration_mask, calibrations_initial) ==
    [ret  |-> ArrayToCalibrationLoop(calibrations_initial, calibration_mask,
                  Positions(calibrations_initial), 1,
                  IF calibration_array = <<>> THEN <<>>
                  ELSE [k \in 1..Len(Positions(calibrations_initial)) |->
                           calibration_array[1]]),
     init |-> calibrations_initial]

\* array_to_calibration(calibration_array, calibration_mask,
\* calibrations_initial): ret is the outcome, init the state of the object
\* calibrations_initial after the call (the loop writes into a deep copy).
ArrayToCalibration(calibration_array, calibration_mask, calibrations_initial) ==
    [ret  |-> ArrayToCalibrationLoop(calibrations_initial, calibration_mask,
                  Positions(calibrations_initial), 1, calibration_array),
     init |-> calibrations_initial]

\* default_calibration_scaler(): 1e-1 is 1/10, 1e0 is 1.
DefaultCalibrationScaler ==
    << [key |-> "screen_center", v |-> <<Q(1, 10), Q(1, 10)>>],
       [key |-> "position",      v |-> <<I(1), I(1), I(1)>>],
       [key |-> "euler_angles",  v |-> <<Q(1, 10), Q(1, 10), Q(1, 10)>>],
       [key |-> "pixel_size",    v |-> <<I(1), I(1)>> ] >>

\* scaler[key][i] (i counted from 1 here).
ScalerAt(scaler, key, i) ==
    LET f == FindKey(scaler, key)
    IN  IF f = 0 THEN Err("KeyError")
        ELSE IF i > Len(scaler[f].v) THEN Err("IndexError")
        ELSE Ok(scaler[f].v[i])

\* The loop shared by apply_calibration_scaler (unapply = FALSE) and
\* unapply_calibration_scaler (unapply = TRUE) over the positions of the
\* mask; arr is the copy of calibration_array, count the 0-based counter.
RECURSIVE ScalerLoop(_, _, _, _, _, _, _)
ScalerLoop(unapply, arr, scaler, calibration_mask, pos, k, count) ==
    IF k > Len(pos) THEN Ok(arr)
    ELSE LET p == pos[k]
             mfield == calibration_mask[p[1]].fields[p[2]]
         IN  IF ~mfield.v[p[3]]
             THEN ScalerLoop(unapply, arr, scaler, calibration_mask, pos, k + 1, count)
             ELSE IF count + 1 > Len(arr) THEN Err("IndexError")
             ELSE LET s == ScalerAt(scaler, mfield.key, p[3])
                  IN  IF ~s.ok THEN s
                      ELSE ScalerLoop(unapply,
                               [arr EXCEPT ![count + 1] =
                                   IF unapply THEN Div(arr[count + 1], s.val)
                                   ELSE Mul(arr[count + 1], s.val)],
                               scaler, calibration_mask, pos, k + 1, count + 1)

\* apply_calibration_scaler(calibration_array, scaler, calibration_mask):
\* ret is the outcome, arg the state of the argument array after the call
\* (the loop writes into calibration_array.copy()).
ApplyCalibrationScaler(calibration_array, scaler, calibration_mask) ==
    [ret |-> ScalerLoop(FALSE, calibration_array, scaler, calibration_mask,
                        Positions(calibration_mask), 1, 0),
     arg |-> calibration_array]

\* unapply_calibration_scaler that multiplies, as apply_calibration_scaler
\* does.
UnapplyCalibrationScalerMultiplies(calibration_array, scaler, calibration_mask) ==
    [ret |-> ScalerLoop(FALSE, calibration_array, scaler, calibration_mask,
                        Positions(calibration_mask), 1, 0),
     arg |-> calibration_array]

\* unapply_calibration_scaler(calibration_array, scaler, calibration_mask).
UnapplyCalibrationScaler(calibration_array, scaler, calibration_mask) ==
    [ret |-> ScalerLoop(TRUE, calibration_array, scaler, calibration_mask,
                        Positions(calibration_mask), 1, 0),
     arg |-> calibration_array]


(***************************************************************************)
(* Specification of the calibration flattening functions                   *)
(***************************************************************************)
\* Largest number of screens in a calibration dictionary.
MaxScreens == 2

\* Largest number of True entries in a calibration mask.
MaxTrue == 2

ScreenNames == <<"lm2", "lm3", "lm4", "lm5">>

\* Calibration of one screen as written in a configuration file: ints and
\* floats mixed, as in the fixtures of calibration_tests.py.
CalibrationA ==
    << [key |-> "screen_center", isint |-> TRUE,  v |-> <<I(2), I(7)>>],
       [key |-> "position",      isint |-> FALSE, v |-> <<I(0), I(0), Q(85, 2)>>],
       [key |-> "euler_angles",  isint |-> TRUE,  v |-> <<I(0), I(0), I(0)>>],
       [key |-> "pixel_size",    isint |-> FALSE, v |-> <<Q(1, 100000), Q(1, 100000)>>] >>

CalibrationB ==
    << [key |-> "screen_center", isint |-> FALSE, v |-> <<I(1), Q(19, 2)>>],
       [key |-> "position",      isint |-> TRUE,  v |-> <<I(-1), I(3), I(90)>>],
       [key |-> "euler_angles",  isint |-> FALSE, v |-> <<Q(1, 2), I(0), Q(-1, 4)>>],
       [key |-> "pixel_size",    isint |-> TRUE,  v |-> <<I(1), I(2)>>] >>

\* The calibration dictionaries of n screens: the screens alternate between
\* the two records, starting with either.
CalibrationsOf(n) ==
    { [s \in 1..n |->
          [name |-> ScreenNames[s],
           fields |-> IF (s % 2 = 1) = first THEN CalibrationA ELSE CalibrationB]]
      : first \in BOOLEAN }

\* The subsets of S with at most k elements.
RECURSIVE SubsetsUpTo(_, _)
SubsetsUpTo(S, k) ==
    IF k = 0 THEN {{}}
    ELSE LET prev == SubsetsUpTo(S, k - 1)
         IN  prev \cup {T \cup {x} : T \in prev, x \in S}

\* The mask that mirrors calibration cal and is True exactly at the
\* positions in T.
MaskOf(cal, T) ==
    [s \in 1..Len(cal) |->
        [name |-> cal[s].name,
         fields |-> [f \in 1..Len(cal[s].fields) |->
              [key |-> cal[s].fields[f].key,
               v |-> [i \in 1..Len(cal[s].fields[f].v) |-> <<s, f, i>> \in T]]]]]

\* The sets of at most MaxTrue positions of calibration cal.
TrueSetsOf(cal) ==
    LET pos == Positions(cal)
    IN  SubsetsUpTo({pos[k] : k \in 1..Len(pos)}, MaxTrue)

\* Values a calibration array is filled with: none of them an integer that
\* already stands in a calibration above.
ArrayValuesA == <<Q(5, 2), I(-3), Q(7, 4), I(11), Q(-1, 3)>>

ArrayValuesB == <<I(-6), Q(-9, 2), I(13), Q(1, 8), I(4)>>

\* A second scaler table, none of its entries 1.
OtherCalibrationScaler ==
    << [key |-> "screen_center", v |-> <<I(2), Q(1, 3)>>],
       [key |-> "position",      v |-> <<Q(1, 5), I(-4), I(3)>>],
       [key |-> "euler_angles",  v |-> <<I(7), Q(3, 2), Q(-1, 2)>>],
       [key |-> "pixel_size",    v |-> <<Q(1, 100), I(5)>> ] >>

InitCalibration ==
    /\ calls = <<>>
    /\ ret = NoRet
    /\ \E n \in 1..MaxScreens : \E cal \in CalibrationsOf(n) :
       \E T \in TrueSetsOf(cal) : \E other \in BOOLEAN :
          heap = [cal |-> cal, mask |-> MaskOf(cal, T),
                  arr |-> SubSeq(IF other THEN ArrayValuesB ELSE ArrayValuesA,
                                 1, Cardinality(T)),
                  scaler |-> IF other THEN OtherCalibrationScaler
                             ELSE DefaultCalibrationScaler,
                  mid |-> <<>>]
    /\ heap0 = heap

\* calibration_to_array(cal, mask)
DoCalibrationToArray ==
    /\ calls = <<>>
    /\ calls' = <<"calibration_to_array">>
    /\ ret' = CalibrationToArray(heap.cal, heap.mask)
    /\ UNCHANGED <<heap, heap0>>

\* array_to_calibration(arr, mask, cal)
DoArrayToCalibration ==
    /\ calls = <<>>
    /\ calls' = <<"array_to_calibration">>
    /\ LET r == ArrayToCalibration(heap.arr, heap.mask, heap.cal)
       IN  /\ ret' = r.ret
           /\ heap' = [heap EXCEPT !.cal = r.init]
    /\ UNCHANGED heap0

\* array_to_calibration(calibration_to_array(cal, mask), mask, cal)
DoArrayToCalibrationOfResult ==
    /\ calls = <<"calibration_to_array">>
    /\ ret.ok
    /\ calls' = Append(calls, "array_to_calibration")
    /\ LET r == ArrayToCalibration(ret.val, heap.mask, heap.cal)
       IN  /\ ret' = r.ret
           /\ heap' = [heap EXCEPT !.cal = r.init, !.mid = ret.val]
    /\ heap0' = [heap0 EXCEPT !.mid = ret.val]

\* apply_calibration_scaler(arr, scaler, mask)
DoApplyCalibrationScaler ==
    /\ calls = <<>>
    /\ calls' = <<"apply_calibration_scaler">>
    /\ LET r == ApplyCalibrationScaler(heap.arr, heap.scaler, heap.mask)
       IN  /\ ret' = r.ret
           /\ heap' = [heap EXCEPT !.arr = r.arg]
    /\ UNCHANGED heap0

\* unapply_calibration_scaler(x, scaler, mask) on the array x returned by
\* the previous call: apply_calibration_scaler, or calibration_to_array as
\* in fit().
DoUnapplyCalibrationScaler ==
    /\ calls \in {<<"apply_calibration_scaler">>, <<"calibration_to_array">>}
    /\ ret.ok
    /\ calls' = Append(calls, "unapply_calibration_scaler")
    /\ LET r == UnapplyCalibrationScaler(ret.val, heap.scaler, heap.mask)
       IN  /\ ret' = r.ret
           /\ heap' = [heap EXCEPT !.mid = r.arg]
    /\ heap0' = [heap0 EXCEPT !.mid = ret.val]

NextCalibration ==
    \/ DoCalibrationToArray
    \/ DoArrayToCalibration
    \/ DoArrayToCalibrationOfResult
    \/ DoApplyCalibrationScaler
    \/ DoUnapplyCalibrationScaler

SpecCalibration == InitCalibration /\ [][NextCalibration]_vars


(***************************************************************************)
(* Claims about the calibration flattening functions                       *)
(***************************************************************************)
\* The numeric values of calibration dictionary a equal those of b on every
\* field of every screen (numpy.testing.assert_array_equal field by field).
SameCalibration(a, b) ==
    /\ Len(a) = Len(b)
    /\ \A s \in 1..Len(a) :
          /\ a[s].name = b[s].name
          /\ Len(a[s].fields) = Len(b[s].fields)
          /\ \A f \in 1..Len(a[s].fields) :
                /\ a[s].fields[f].key = b[s].fields[f].key
                /\ a[s].fields[f].v = b[s].fields[f].v

\* Whether the mask is True at the k-th position of the calibration.
TrueAt(mask, k) ==
    LET p == Positions(mask)[k] IN mask[p[1]].fields[p[2]].v[p[3]]

\* Number of True entries among the first k positions of the mask.
TrueRank(mask, k) == Cardinality({h \in 1..k : TrueAt(mask, h)})

\* Value at the k-th position of a calibration.
ValueAt(cal, k) ==
    LET p == Positions(cal)[k] IN cal[p[1]].fields[p[2]].v[p[3]]

\* C1: flattening a calibration with a mask of the same shape and
\* unflattening the array with the same mask and the same calibration as
\* initial values gives back the calibration, on every field of every
\* screen.
C1_RoundTrip ==
    calls = <<"calibration_to_array", "array_to_calibration">> =>
        /\ ret.ok
        /\ SameCalibration(ret.val, heap0.cal)

\* C1 witness: a round trip through an array of two elements, one of them
\* taken from an integer field.
C1_Witness ==
    /\ calls = <<"calibration_to_array", "array_to_calibration">>
    /\ ret.ok
    /\ Len(heap.mid) = 2
    /\ heap.mid[1] # heap.mid[2]
    /\ \E k \in 1..Len(Positions(heap.mask)) :
          /\ TrueAt(heap.mask, k)
          /\ heap0.cal[Positions(heap.mask)[k][1]].fields[Positions(heap.mask)[k][2]].isint

\* C2: array_to_calibration(a, m, init) puts exactly a[j] at the j-th True
\* entry of the mask, also in a field of integers, leaves every False entry
\* at the value of init, and does not modify init.
C2_ExactValues ==
    calls = <<"array_to_calibration">> =>
        /\ ret.ok
        /\ \A k \in 1..Len(Positions(heap0.cal)) :
              ValueAt(ret.val, k) =
                  IF TrueAt(heap0.mask, k)
                  THEN heap0.arr[TrueRank(heap0.mask, k)]
                  ELSE ValueAt(heap0.cal, k)
        /\ heap.cal = heap0.cal

HomographyScreen(z_position, homography) ==
    [kind |-> "HomographyScreen", z_position |-> z_position, homography |-> homography]

\* 'screen_' as character codes.
ScreenPrefix == <<115, 99, 114, 101, 101, 110, 95>>

\* '{}'.format(i) for an integer i >= 0: its decimal digits.
RECURSIVE Decimal(_)
Decimal(i) ==
    IF i < 10 THEN <<48 + i>> ELSE Append(Decimal(i \div 10), 48 + (i % 10))

\* ['screen_{}'.format(i) for i in range(n)]
DefaultScreenNames(n) == [k \in 1..n |-> ScreenPrefix \o Decimal(k - 1)]

\* Order of two strings by character codes, as HDF5 orders link names.
RECURSIVE NameLess(_, _)
NameLess(a, b) ==
    IF b = <<>> THEN FALSE
    ELSE IF a = <<>> THEN TRUE
    ELSE IF Head(a) # Head(b) THEN Head(a) < Head(b)
    ELSE NameLess(Tail(a), Tail(b))

\* The members of a group in the order in which h5py iterates them.
RECURSIVE IterationOrder(_)
IterationOrder(members) ==
    IF members = {} THEN <<>>
    ELSE LET first == CHOOSE m \in members :
                          \A o \in members : o = m \/ NameLess(m.name, o.name)
         IN  <<first>> \o IterationOrder(members \ {first})

\* The loop of write_calibration over zip(screen_bpm.screens, screen_names)
\* from pair k on; members is the content of the group 'screens'.
RECURSIVE WriteLoop(_, _, _, _)
WriteLoop(screens, names, k, members) ==
    IF k > Len(screens) \/ k > Len(names) THEN [ret |-> Ok(<<>>), members |-> members]
    ELSE IF \E m \in members : m.name = names[k]
    THEN [ret |-> Err("ValueError"), members |-> members]
    ELSE WriteLoop(screens, names, k + 1,
             members \cup {[name |-> names[k],
                            homography |-> screens[k].homography,
                            z_position |-> screens[k].z_position]})

\* write_calibration(screen_bpm, path, screen_names); screen_names = <<>>
\* with given = FALSE stands for None.  The file is opened with mode 'w':
\* what it held before is gone.  Returns the outcome and the file.
WriteCalibration(screens, given, screen_names) ==
    LET names == IF given THEN screen_names ELSE DefaultScreenNames(Len(screens))
        w == WriteLoop(screens, names, 1, {})
    IN  [ret |-> w.ret, file |-> [exists |-> TRUE, members |-> w.members]]

\* load_calibration(path): the screens and the screen names in the order of
\* iteration over h5['screens'].
LoadCalibration(file) ==
    IF ~file.exists THEN Err("OSError")
    ELSE IF file.members = {} THEN Err("KeyError")
    ELSE LET it == IterationOrder(file.members)
         IN  Ok([screens |-> [k \in 1..Len(it) |->
                                 HomographyScreen(it[k].z_position, it[k].homography)],
                 screen_names |-> [k \in 1..Len(it) |-> it[k].name]])

(***************************************************************************)
(* Specification of the calibration persistence                            *)
(***************************************************************************)
\* Largest number of screens written.
MaxWritten == 11

\* Largest number of screens written under names chosen by the caller.
MaxNamed == 3

\* 3x3 homographies: identity, the scaling of homography_screen_tests.py,
\* a translation with shear, and one with a projective last row.  All are
\* invertible.
HomographyIdentity == << <<I(1), I(0), I(0)>>, <<I(0), I(1), I(0)>>, <<I(0), I(0), I(1)>> >>

HomographyScaling == << <<I(2), I(0), I(0)>>, <<I(0), Q(1, 2), I(0)>>, <<I(0), I(0), I(1)>> >>

HomographyAffine == << <<I(1), I(1), I(3)>>, <<I(0), I(2), I(-1)>>, <<I(0), I(0), I(1)>> >>

HomographyProjective == << <<I(1), I(0), I(0)>>, <<I(0), I(1), I(0)>>, <<I(1), I(0), I(1)>> >>

Homographies ==
    <<HomographyIdentity, HomographyScaling, HomographyAffine, HomographyProjective>>

\* n screens, all different: screen k stands at z = 10 k + shift.
ScreensOf(n, shift) ==
    [k \in 1..n |-> HomographyScreen(I(10 * k + shift),
                                     Homographies[((k + shift) % Len(Homographies)) + 1])]

\* Names a caller may give: 'a', 'b', 'ab', 'B'.
CallerNames == {<<97>>, <<98>>, <<97, 98>>, <<66>>}

\* The lists of n names, all different.
DistinctNameLists(n) ==
    {l \in SeqsOfLen(CallerNames, n) : \A i, j \in 1..n : i # j => l[i] # l[j]}

InitPersist ==
    /\ calls = <<>>
    /\ ret = NoRet
    /\ \E shift \in 0..1 :
          \/ \E n \in 0..MaxWritten :
                heap = [screens |-> ScreensOf(n, shift), given |-> FALSE,
                        screen_names |-> <<>>,
                        file |-> [exists |-> FALSE, members |-> {}]]
          \/ \E n \in 0..MaxNamed : \E names \in DistinctNameLists(n) :
                heap = [screens |-> ScreensOf(n, shift), given |-> TRUE,
                        screen_names |-> names,
                        file |-> [exists |-> FALSE, members |-> {}]]
    /\ heap0 = heap

\* write_calibration(bpm, path, screen_names)
DoWriteCalibration ==
    /\ calls = <<>>
    /\ calls' = <<"write_calibration">>
    /\ LET r == WriteCalibration(heap.screens, heap.given, heap.screen_names)
       IN  /\ ret' = r.ret
           /\ heap' = [heap EXCEPT !.file = r.file]
    /\ UNCHANGED heap0

\* load_calibration(path)
DoLoadCalibration ==
    /\ calls \in {<<>>, <<"write_calibration">>}
    /\ ret.ok
    /\ calls' = Append(calls, "load_calibration")
    /\ ret' = LoadCalibration(heap.file)
    /\ UNCHANGED <<heap, heap0>>

NextPersist == DoWriteCalibration \/ DoLoadCalibration

SpecPersist == InitPersist /\ [][NextPersist]_vars

\* The names write_calibration stores the screens under.
WrittenNames ==
    IF heap0.given THEN heap0.screen_names
    ELSE DefaultScreenNames(Len(heap0.screens))

\* C4: a ScreenBPM written with write_calibration and read back with
\* load_calibration has the same number of screens, the same homography
\* and z_position at every index, and the screen names in the order
\* written, for caller-given distinct names and for the default names
\* screen_0 .. screen_{n-1} of any n >= 1.
C4_WriteReadRoundTrip ==
    (calls = <<"write_calibration", "load_calibration">> /\ Len(heap0.screens) > 0) =>
        /\ ret.ok
        /\ Len(ret.val.screens) = Len(heap0.screens)
        /\ \A k \in 1..Len(heap0.screens) :
              /\ ret.val.screens[k].homography = heap0.screens[k].homography
              /\ ret.val.screens[k].z_position = heap0.screens[k].z_position
        /\ ret.val.screen_names = WrittenNames

\* C4 for the default names alone (the names 'screen_{}'.format(i) are
\* stored under, for n >= 1 screens, come back in the order written).
C4_DefaultNamesRoundTrip ==
    (calls = <<"write_calibration", "load_calibration">> /\ ~heap0.given
        /\ Len(heap0.screens) > 0) =>
        /\ ret.ok
        /\ ret.val.screens = heap0.screens
        /\ ret.val.screen_names = WrittenNames


(***************************************************************************)
(* Vectors and matrices  (numpy)                                           *)
(***************************************************************************)
RECURSIVE SumSeq(_)
SumSeq(xs) == IF xs = <<>> THEN I(0) ELSE Add(Head(xs), SumSeq(Tail(xs)))

VecAdd(a, b) == [k \in 1..Len(a) |-> Add(a[k], b[k])]

VecSub(a, b) == [k \in 1..Len(a) |-> Sub(a[k], b[k])]

VecScale(a, c) == [k \in 1..Len(a) |-> Mul(a[k], c)]

VecDiv(a, c) == [k \in 1..Len(a) |-> Div(a[k], c)]

VecNeg(a) == [k \in 1..Len(a) |-> Neg(a[k])]

\* numpy.dot of two vectors.
Dot(a, b) == SumSeq([k \in 1..Len(a) |-> Mul(a[k], b[k])])

\* numpy.cross of two 3-vectors.
Cross(a, b) ==
    << Sub(Mul(a[2], b[3]), Mul(a[3], b[2])),
       Sub(Mul(a[3], b[1]), Mul(a[1], b[3])),
       Sub(Mul(a[1], b[2]), Mul(a[2], b[1])) >>

\* Matrix times vector; a matrix is the sequence of its rows.
MatVec(m, v) == [r \in 1..Len(m) |-> Dot(m[r], v)]

Transpose(m) == [c \in 1..Len(m[1]) |-> [r \in 1..Len(m) |-> m[r][c]]]

MatMul(a, b) ==
    [r \in 1..Len(a) |-> [c \in 1..Len(b[1]) |->
        SumSeq([k \in 1..Len(b) |-> Mul(a[r][k], b[k][c])])]]

\* Integer square root of n >= 0.
RECURSIVE ISqrtFrom(_, _)
ISqrtFrom(n, k) == IF (k + 1) * (k + 1) > n THEN k ELSE ISqrtFrom(n, k + 1)

\* Square root of a number that is the square of a rational (the lengths
\* that occur here are: the vectors normalised are images, under a rotation
\* by quarter turns, of vectors along one axis); nan for nan.
Sqrt(a) ==
    IF a[2] = 0 THEN a
    ELSE <<ISqrtFrom(a[1], 0), ISqrtFrom(a[2], 0)>>

\* numpy.linalg.norm of a vector.
Norm(v) == Sqrt(Dot(v, v))

\* Determinant of a 3x3 matrix.
Det3(m) == Dot(m[1], Cross(m[2], m[3]))

\* numpy.linalg.inv of a 3x3 matrix: LinAlgError for a singular matrix.
Inv3(m) ==
    LET Inverse(d) ==
            IF d = I(0) \/ ~IsFinite(d) THEN Err("LinAlgError")
            ELSE Ok(Transpose(<< VecDiv(Cross(m[2], m[3]), d),
                                 VecDiv(Cross(m[3], m[1]), d),
                                 VecDiv(Cross(m[1], m[2]), d) >>))
    IN  Inverse(Det3(m))

\* numpy.linalg.inv of the 2x2 matrix diag(a, b).
InvDiag2(a, b) ==
    IF a = I(0) \/ b = I(0) THEN Err("LinAlgError")
    ELSE Ok(<<Div(I(1), a), Div(I(1), b)>>)

(***************************************************************************)
(* Screen  (screen.py)                                                     *)
(*                                                                         *)
(* An Euler angle is counted in quarter turns: the integer k stands for    *)
(* k pi/2 radians, whose cosine and sine are taken exactly.                *)
(***************************************************************************)
CosQuarter(a) == I(<<1, 0, -1, 0>>[(a[1] % 4) + 1])

SinQuarter(a) == I(<<0, 1, 0, -1>>[(a[1] % 4) + 1])

RotZ(a) == << <<CosQuarter(a), Neg(SinQuarter(a)), I(0)>>,
              <<SinQuarter(a), CosQuarter(a), I(0)>>,
              <<I(0), I(0), I(1)>> >>

RotX(a) == << <<I(1), I(0), I(0)>>,
              <<I(0), CosQuarter(a), Neg(SinQuarter(a))>>,
              <<I(0), SinQuarter(a), CosQuarter(a)>> >>

RotY(a) == << <<CosQuarter(a), I(0), SinQuarter(a)>>,
              <<I(0), I(1), I(0)>>,
              <<Neg(SinQuarter(a)), I(0), CosQuarter(a)>> >>

\* Rotation.from_euler('ZXY', euler_angles): intrinsic rotations about z,
\* then x, then y, as a matrix.
FromEulerZXY(euler_angles) ==
    MatMul(MatMul(RotZ(euler_angles[1]), RotX(euler_angles[2])), RotY(euler_angles[3]))

\* Screen.__init__.  pixel_size is [scalar, ndim, v]: a float or int
\* (scalar), or a list, tuple or array with elements v (ndim > 1 only for
\* an array).
ScreenInit(position, euler_angles, pixel_size, screen_center) ==
    LET Made(px) ==
            IF ~px.ok THEN px
            ELSE Ok([kind |-> "Screen", position |-> position,
                     rotation |-> FromEulerZXY(euler_angles),
                     pixel_size |-> px.val, screen_center |-> screen_center])
    IN  Made(IF pixel_size.scalar THEN Ok(<<pixel_size.v[1], pixel_size.v[1]>>)
             ELSE IF Len(pixel_size.v) = 1 THEN Ok(<<pixel_size.v[1], pixel_size.v[1]>>)
             ELSE IF Len(pixel_size.v) = 2
             THEN (IF pixel_size.ndim # 1 THEN Err("ValueError") ELSE Ok(pixel_size.v))
             ELSE IF Len(pixel_size.v) > 2 THEN Err("ValueError")
             ELSE Ok(pixel_size.v))

\* Screen._uv_to_uv_prime for one point.
UvToUvPrime(screen, uv) ==
    LET Scaled(c) == <<Mul(screen.pixel_size[1], c[1]), Mul(screen.pixel_size[2], c[2])>>
    IN  Scaled(VecSub(uv, screen.screen_center))

\* Screen._uv_prime_to_xyz for one point.
UvPrimeToXyzUnflipped(screen, uv_prime) ==
    VecAdd(MatVec(screen.rotation, <<Neg(uv_prime[1]), Neg(uv_prime[2]), I(0)>>),
           screen.position)

UvPrimeToXyz(screen, uv_prime) ==
    VecAdd(MatVec(screen.rotation, <<Neg(uv_prime[2]), Neg(uv_prime[1]), I(0)>>),
           screen.position)

\* Screen.uv_to_xyz for one point given as a list, tuple or 1-d array of
\* two numbers: an array with the one row.
ScreenUvToXyz(screen, uv) == Ok(<<UvPrimeToXyz(screen, UvToUvPrime(screen, uv))>>)

\* Screen._xyz_to_uv_prime for one point.
XyzToUvPrime(screen, xyz) ==
    LET Swapped(r) == <<Neg(r[2]), Neg(r[1])>>
    IN  Swapped(MatVec(Transpose(screen.rotation), VecSub(xyz, screen.position)))

\* A _uv_prime_to_uv that applies the affine matrix instead of its
\* inverse.
UvPrimeToUvScales(screen, uv_prime) ==
    Ok(VecAdd(<<Mul(screen.pixel_size[1], uv_prime[1]),
                Mul(screen.pixel_size[2], uv_prime[2])>>,
              screen.screen_center))

\* Screen._uv_prime_to_uv for one point.
UvPrimeToUv(screen, uv_prime) ==
    LET Applied(inv) ==
            IF ~inv.ok THEN inv
            ELSE Ok(VecAdd(<<Mul(inv.val[1], uv_prime[1]), Mul(inv.val[2], uv_prime[2])>>,
                           screen.screen_center))
    IN  Applied(InvDiag2(screen.pixel_size[1], screen.pixel_size[2]))

\* Screen._xyz_to_uv_prime and _uv_prime_to_uv over the rows of an array;
\* the first exception ends it.
RECURSIVE ScreenXyzToUvRows(_, _, _)
ScreenXyzToUvRows(screen, rows, acc) ==
    LET Store(r) ==
            IF ~r.ok THEN r
            ELSE ScreenXyzToUvRows(screen, Tail(rows), Append(acc, r.val))
    IN  IF rows = <<>> THEN Ok(acc)
        ELSE Store(UvPrimeToUv(screen, XyzToUvPrime(screen, Head(rows))))

\* Screen.xyz_to_uv of an (n, 3) array: an (n, 2) array.
ScreenXyzToUv(screen, xyz_rows) == ScreenXyzToUvRows(screen, xyz_rows, <<>>)

\* Screen.compute_normal.
ComputeNormal(screen) ==
    LET unit_u == VecSub(ScreenUvToXyz(screen, <<I(1), I(0)>>).val[1], screen.position)
        unit_v == VecSub(ScreenUvToXyz(screen, <<I(0), I(1)>>).val[1], screen.position)
        Normalised(normal) == VecDiv(normal, Norm(normal))
    IN  Normalised(VecNeg(Cross(unit_u, unit_v)))

\* Screen.compute_ray_intersection of an (n, 6) array of ray nodes: an
\* (n, 3) array.
ScreenComputeRayIntersection(screen, ray_nodes) ==
    LET Intersection(point_1, difference, normal) ==
            VecAdd(point_1,
                   VecScale(difference,
                            Div(Sub(Dot(screen.position, normal), Dot(point_1, normal)),
                                Dot(difference, normal))))
        Intersections(normal) ==
            Ok([k \in 1..Len(ray_nodes) |->
                   Intersection(SubSeq(ray_nodes[k], 1, 3),
                                VecSub(SubSeq(ray_nodes[k], 4, 6), SubSeq(ray_nodes[k], 1, 3)),
                                normal)])
    IN  Intersections(ComputeNormal(screen))

\* Screen.from_calibration; a calibration field written as a scalar is
\* a sequence of one element here.
ScreenFromCalibration(calibration) ==
    LET get(key) == calibration[FindKey(calibration, key)].v
    IN  ScreenInit(get("position"), get("euler_angles"),
                   [scalar |-> FALSE, ndim |-> 1, v |-> get("pixel_size")],
                   get("screen_center"))


(***************************************************************************)
(* HomographyScreen  (homography_screen.py)                                *)
(*                                                                         *)
(* The object is [z_position, homography] (HomographyScreen above), with   *)
(* any attribute set on it later beside them.  A point argument is         *)
(* [ndim, rows]: a list, tuple or array of one point (ndim = 1, rows holds *)
(* the point) or of several points (ndim = 2).                             *)
(***************************************************************************)
\* HomographyScreen.__init__ called with keyword arguments beyond
\* z_position and homography: Python raises TypeError for a keyword the
\* signature (self, z_position, homogrpahy) does not have.
HomographyScreenInit(z_position, homography, keywords) ==
    IF keywords # {} THEN Err("TypeError")
    ELSE Ok(HomographyScreen(z_position, homography))

\* convert_uv_input / convert_xyz_input: the rows of the (n_points,
\* n_entries) array, ValueError unless every row has n entries.
ConvertInput(points, n) ==
    IF \E k \in 1..Len(points.rows) : Len(points.rows[k]) # n
    THEN Err("ValueError")
    ELSE Ok(points.rows)

\* HomographyScreen.uv_to_xyz: an (n, 3) array.
HomographyUvToXyz(screen, uv_points) ==
    LET Projected(xy_hom) ==
            << Div(xy_hom[1], xy_hom[3]), Div(xy_hom[2], xy_hom[3]),
               Mul(screen.z_position, I(1)) >>
        Converted(uv) ==
            IF ~uv.ok THEN uv
            ELSE Ok([k \in 1..Len(uv.val) |->
                        Projected(MatVec(screen.homography,
                                         <<uv.val[k][1], uv.val[k][2], I(1)>>))])
    IN  Converted(ConvertInput(uv_points, 2))

\* HomographyScreen.xyz_to_uv: an (n, 2) array.
HomographyXyzToUv(screen, xyz_points) ==
    LET Projected(uv_hom) == <<Div(uv_hom[1], uv_hom[3]), Div(uv_hom[2], uv_hom[3])>>
        Converted(xyz, inv) ==
            IF ~xyz.ok THEN xyz
            ELSE IF ~inv.ok THEN inv
            ELSE Ok([k \in 1..Len(xyz.val) |->
                        Projected(MatVec(inv.val,
                                         <<xyz.val[k][1], xyz.val[k][2], I(1)>>))])
    IN  Converted(ConvertInput(xyz_points, 3), Inv3(screen.homography))

\* HomographyScreen.compute_ray_intersection of an (n, 6) array of ray
\* nodes: an (n, 3) array.
HomographyComputeRayIntersectionFromSecondNode(screen, ray_nodes) ==
    LET one(ray) ==
            LET point_1 == SubSeq(ray, 1, 3)
                point_2 == SubSeq(ray, 4, 6)
                dpoint_dz == VecDiv(VecSub(point_2, point_1), Sub(point_2[3], point_1[3]))
                Delta_z == Sub(screen.z_position, point_2[3])
            IN  VecAdd(point_1, VecScale(dpoint_dz, Delta_z))
    IN  Ok([k \in 1..Len(ray_nodes) |-> one(ray_nodes[k])])

HomographyComputeRayIntersection(screen, ray_nodes) ==
    LET one(ray) ==
            LET point_1 == SubSeq(ray, 1, 3)
                point_2 == SubSeq(ray, 4, 6)
                dpoint_dz == VecDiv(VecSub(point_2, point_1), Sub(point_2[3], point_1[3]))
                Delta_z == Sub(screen.z_position, point_1[3])
            IN  VecAdd(point_1, VecScale(dpoint_dz, Delta_z))
    IN  Ok([k \in 1..Len(ray_nodes) |-> one(ray_nodes[k])])

\* screen.uv_to_xyz(uv_point) for either kind of screen and one point.
UvToXyz(screen, uv) ==
    IF screen.kind = "Screen" THEN ScreenUvToXyz(screen, uv)
    ELSE HomographyUvToXyz(screen, [ndim |-> 1, rows |-> <<uv>>])

\* screen.xyz_to_uv(xyz) for either kind of screen and an (n, 3) array.
XyzToUv(screen, xyz_rows) ==
    IF screen.kind = "Screen" THEN ScreenXyzToUv(screen, xyz_rows)
    ELSE HomographyXyzToUv(screen, [ndim |-> 2, rows |-> xyz_rows])

\* screen.compute_ray_intersection(ray_nodes) for either kind of screen.
ComputeRayIntersection(screen, ray_nodes) ==
    IF screen.kind = "Screen" THEN ScreenComputeRayIntersection(screen, ray_nodes)
    ELSE HomographyComputeRayIntersection(screen, ray_nodes)


(***************************************************************************)
(* Ray operations  (ray_operations.py)                                     *)
(*                                                                         *)
(* A ray is the sequence x1, y1, z1, x2, y2, z2.  An angle arctan(q) is    *)
(* kept as the pair <<"arctan", q>>.                                       *)
(***************************************************************************)
Arctan(q) == <<"arctan", q>>

\* compute_xy_angles of an (n, 6) array of ray nodes: the n x-angles, then
\* the n y-angles.
ComputeXyAngles(ray_nodes) ==
    LET n == Len(ray_nodes)
        delta(r, a, b) == Sub(ray_nodes[r][b], ray_nodes[r][a])
    IN  [k \in 1..(2 * n) |->
            IF k <= n THEN Arctan(Div(delta(k, 1, 4), delta(k, 3, 6)))
            ELSE Arctan(Div(delta(k - n, 2, 5), delta(k - n, 3, 6)))]

\* Length of the result of broadcasting two 1-d arrays of lengths n and k
\* against each other; -1 when numpy refuses (ValueError).
BroadcastLen(n, k) ==
    IF n = k THEN n ELSE IF n = 1 THEN k ELSE IF k = 1 THEN n ELSE -1

\* Element i of a 1-d array broadcast to a longer length.
BroadcastAt(a, i) == IF Len(a) = 1 THEN a[1] ELSE a[i]

\* A compute_beam_position that adds the coordinate of the second node
\* where the first is due.
ComputeBeamPositionFromSecondNode(ray_nodes, z_beam_position) ==
    LET n == Len(ray_nodes)
        at(i, c) == BroadcastAt(ray_nodes, i)[c]
        z(i) == BroadcastAt(z_beam_position.v, i)
        inter(i, a, b) ==
            Add(Div(Mul(Sub(at(i, b), at(i, a)), Sub(z(i), at(i, 3))),
                    Sub(at(i, 6), at(i, 3))),
                at(i, b))
        Squeezed(m, rows) ==
            IF m = -1 THEN Err("ValueError")
            ELSE IF m = 1 THEN Ok(rows[1])
            ELSE Ok(rows)
        Broadcast(m) ==
            Squeezed(m, [i \in 1..m |-> <<inter(i, 1, 4), inter(i, 2, 5)>>])
    IN  Broadcast(BroadcastLen(n, Len(z_beam_position.v)))

\* compute_beam_position(ray_nodes, z_beam_position) for an (n, 6) array
\* of ray nodes and z_beam_position = [scalar, v]: a number (v has the one
\* element) or a sequence of numbers.  The result is the squeezed (m, 2)
\* array: one pair for m = 1, else the sequence of the m pairs.
ComputeBeamPosition(ray_nodes, z_beam_position) ==
    LET n == Len(ray_nodes)
        at(i, c) == BroadcastAt(ray_nodes, i)[c]
        z(i) == BroadcastAt(z_beam_position.v, i)
        inter(i, a, b) ==
            Add(Div(Mul(Sub(at(i, b), at(i, a)), Sub(z(i), at(i, 3))),
                    Sub(at(i, 6), at(i, 3))),
                at(i, a))
        Squeezed(m, rows) ==
            IF m = -1 THEN Err("ValueError")
            ELSE IF m = 1 THEN Ok(rows[1])
            ELSE Ok(rows)
        Broadcast(m) ==
            Squeezed(m, [i \in 1..m |-> <<inter(i, 1, 4), inter(i, 2, 5)>>])
    IN  Broadcast(BroadcastLen(n, Len(z_beam_position.v)))

\* numpy.polynomial.polynomial.polyfit(z, x, 1, w=w) for sequences of the
\* same length >= 1: the coefficients <<c0, c1>> that minimise
\* sum (w_i (c0 + c1 z_i - x_i))^2.  When the z_i do not determine the
\* slope (one point, or all z equal) lstsq returns, with a RankWarning and
\* no exception, the solution of least norm in the column-scaled
\* unknowns: c0 = mean/2, c1 = mean/(2 z) for z # 0, and c0 = mean, c1 = 0
\* for z = 0.  lstsq raises LinAlgError for nan or inf in its input.
Polyfit1(z, x, w) ==
    LET ks == 1..Len(z)
        w2(k) == Mul(w[k], w[k])
        Coefficients(W, Sz, Szz, Sx, Szx, D, mean) ==
            IF D # I(0)
            THEN Ok(<< Div(Sub(Mul(Szz, Sx), Mul(Sz, Szx)), D),
                       Div(Sub(Mul(W, Szx), Mul(Sz, Sx)), D) >>)
            ELSE IF z[1] = I(0) THEN Ok(<<mean, I(0)>>)
            ELSE Ok(<<Div(mean, I(2)), Div(mean, Mul(I(2), z[1]))>>)
        Solve(W, Sz, Szz, Sx, Szx) ==
            Coefficients(W, Sz, Szz, Sx, Szx,
                         Sub(Mul(W, Szz), Mul(Sz, Sz)), Div(Sx, W))
    IN  IF \E k \in ks : ~IsFinite(z[k]) \/ ~IsFinite(x[k]) \/ ~IsFinite(w[k])
        THEN Err("LinAlgError")
        ELSE Solve(SumSeq([k \in ks |-> w2(k)]),
                   SumSeq([k \in ks |-> Mul(w2(k), z[k])]),
                   SumSeq([k \in ks |-> Mul(w2(k), Mul(z[k], z[k]))]),
                   SumSeq([k \in ks |-> Mul(w2(k), x[k])]),
                   SumSeq([k \in ks |-> Mul(w2(k), Mul(z[k], x[k]))]))

\* numpy.polynomial.polynomial.polyval(z, c) for c = <<c0, c1>>.
Polyval1(z, c) == Add(c[1], Mul(c[2], z))

Less(a, b) == a[1] * b[2] < b[1] * a[2]

\* numpy.min / numpy.max of a non-empty sequence of finite numbers.
MinOf(xs) == CHOOSE a \in {xs[k] : k \in 1..Len(xs)} :
                 \A k \in 1..Len(xs) : ~Less(xs[k], a)

MaxOf(xs) == CHOOSE a \in {xs[k] : k \in 1..Len(xs)} :
                 \A k \in 1..Len(xs) : ~Less(a, xs[k])

\* A weighting that gives point i the weight sigma_i / max(sigma).
FitWeightsBySigma(sigmas, n) ==
    IF sigmas.none THEN [k \in 1..n |-> I(1)]
    ELSE [k \in 1..Len(sigmas.v) |-> Div(sigmas.v[k], MaxOf(sigmas.v))]

\* The weights of fit_ray for n points: None stands for equal weights,
\* else 1/sigmas * numpy.max(sigmas).
FitWeights(sigmas, n) ==
    IF sigmas.none THEN [k \in 1..n |-> I(1)]
    ELSE [k \in 1..Len(sigmas.v) |-> Mul(Div(I(1), sigmas.v[k]), MaxOf(sigmas.v))]

\* A fit_ray whose nodes are at the z of the first and of the last point
\* given.
FitRayInInputOrder(xyz_positions, sigmas) ==
    LET n == Len(xyz_positions)
        col(c) == [k \in 1..n |-> xyz_positions[k][c]]
        RayNodes(poly_x, poly_y, z_min, z_max) ==
            IF ~poly_x.ok THEN poly_x
            ELSE IF ~poly_y.ok THEN poly_y
            ELSE Ok(<< Polyval1(z_min, poly_x.val), Polyval1(z_min, poly_y.val), z_min,
                       Polyval1(z_max, poly_x.val), Polyval1(z_max, poly_y.val), z_max >>)
        Fit(weights) ==
            IF Len(weights) # n THEN Err("TypeError")
            ELSE RayNodes(Polyfit1(col(3), col(1), weights),
                          Polyfit1(col(3), col(2), weights),
                          col(3)[1], col(3)[n])
    IN  IF ~sigmas.none /\ sigmas.v = <<>> THEN Err("ValueError")
        ELSE IF n = 0 THEN Err("IndexError")
        ELSE Fit(FitWeights(sigmas, n))

\* fit_ray(xyz_positions, sigmas) for a list of points and sigmas =
\* [none, v]: None or a sequence of numbers.
FitRay(xyz_positions, sigmas) ==
    LET n == Len(xyz_positions)
        col(c) == [k \in 1..n |-> xyz_positions[k][c]]
        RayNodes(poly_x, poly_y, z_min, z_max) ==
            IF ~poly_x.ok THEN poly_x
            ELSE IF ~poly_y.ok THEN poly_y
            ELSE Ok(<< Polyval1(z_min, poly_x.val), Polyval1(z_min, poly_y.val), z_min,
                       Polyval1(z_max, poly_x.val), Polyval1(z_max, poly_y.val), z_max >>)
        Fit(weights) ==
            IF Len(weights) # n THEN Err("TypeError")
            ELSE RayNodes(Polyfit1(col(3), col(1), weights),
                          Polyfit1(col(3), col(2), weights),
                          MinOf(col(3)), MaxOf(col(3)))
    IN  IF ~sigmas.none /\ sigmas.v = <<>> THEN Err("ValueError")
        ELSE IF n = 0 THEN Err("IndexError")
        ELSE Fit(FitWeights(sigmas, n))

(***************************************************************************)
(* ScreenBPM  (screen_bpm.py, image_operations.py)                         *)
(*                                                                         *)
(* A detection is [none, uv]: None, or a point of two numbers.  sigmas is  *)
(* [none, v].  An image is [ndim, blobs] with blobs the rows (u, v, sigma) *)
(* that blob_doh finds in the median-filtered image.  Each operation       *)
(* returns [ret, trace]: its outcome and the calls it made on its          *)
(* collaborators, in order.                                                *)
(***************************************************************************)
None == [none |-> TRUE, uv |-> <<>>]

Detection(uv) == [none |-> FALSE, uv |-> uv]

NoSigmas == [none |-> TRUE, v |-> <<>>]

Sigmas(v) == [none |-> FALSE, v |-> v]

\* numpy.argmax: the first index of the largest element.
Argmax(xs) == CHOOSE k \in 1..Len(xs) :
                 /\ \A j \in 1..Len(xs) : ~Less(xs[k], xs[j])
                 /\ \A j \in 1..(k - 1) : Less(xs[j], xs[k])

\* extract_beam_position(image): the pair (uv_point, sigma).
ExtractBeamPosition(image) ==
    LET n_blobs == Len(image.blobs)
        largest_blob_index == Argmax([k \in 1..n_blobs |-> image.blobs[k][3]])
        blob(k) == Ok(<< <<image.blobs[k][1], image.blobs[k][2]>>, image.blobs[k][3] >>)
    IN  IF image.ndim > 2 THEN Err("ValueError")
        ELSE IF n_blobs = 1 THEN blob(1)
        ELSE IF n_blobs > 1 THEN blob(largest_blob_index)
        ELSE Err("ValueError")

\* A loop that pairs the present detections with the first screens, as
\* zip(self.screens, detections that are not None) would.
RECURSIVE ConvertDetectionsByRank(_, _, _, _, _)
ConvertDetectionsByRank(screens, uv_points, k, xyz_positions, trace) ==
    IF k > Len(screens) \/ k > Len(uv_points)
    THEN [ret |-> Ok(xyz_positions), trace |-> trace]
    ELSE IF uv_points[k].none
    THEN ConvertDetectionsByRank(screens, uv_points, k + 1, xyz_positions, trace)
    ELSE LET Store(xyz, called) ==
                 IF ~xyz.ok THEN [ret |-> xyz, trace |-> called]
                 ELSE ConvertDetectionsByRank(screens, uv_points, k + 1,
                                              Append(xyz_positions, xyz.val[1]), called)
         IN  Store(UvToXyz(screens[Len(xyz_positions) + 1], uv_points[k].uv),
                   Append(trace, [fn |-> "uv_to_xyz", screen |-> Len(xyz_positions) + 1,
                                  arg |-> uv_points[k].uv]))

\* The loop of compute_beam_metrics over zip(self.screens, uv_points),
\* from pair k on.
RECURSIVE ConvertDetections(_, _, _, _, _)
ConvertDetections(screens, uv_points, k, xyz_positions, trace) ==
    IF k > Len(screens) \/ k > Len(uv_points)
    THEN [ret |-> Ok(xyz_positions), trace |-> trace]
    ELSE IF uv_points[k].none
    THEN ConvertDetections(screens, uv_points, k + 1, xyz_positions, trace)
    ELSE LET Store(xyz, called) ==
                 IF ~xyz.ok THEN [ret |-> xyz, trace |-> called]
                 ELSE ConvertDetections(screens, uv_points, k + 1,
                                        Append(xyz_positions, xyz.val[1]), called)
         IN  Store(UvToXyz(screens[k], uv_points[k].uv),
                   Append(trace, [fn |-> "uv_to_xyz", screen |-> k,
                                  arg |-> uv_points[k].uv]))

\* ScreenBPM.compute_beam_metrics, entered with the calls in trace made.
ComputeBeamMetricsFrom(screens, uv_points, z_beam_position, sigmas, trace) ==
    LET Metrics(fitted, beam_position, xy_angles) ==
            IF ~beam_position.ok THEN [ret |-> beam_position, trace |-> fitted]
            ELSE [ret |-> Ok(<<beam_position.val, xy_angles>>), trace |-> fitted]
        Evaluate(fitted, ray_nodes) ==
            IF ~ray_nodes.ok THEN [ret |-> ray_nodes, trace |-> fitted]
            ELSE Metrics(fitted,
                         ComputeBeamPosition(<<ray_nodes.val>>, z_beam_position),
                         ComputeXyAngles(<<ray_nodes.val>>))
        Fit(converted) ==
            IF ~converted.ret.ok THEN converted
            ELSE Evaluate(Append(converted.trace,
                                 [fn |-> "fit_ray", screen |-> 0,
                                  arg |-> converted.ret.val]),
                          FitRay(converted.ret.val, sigmas))
    IN  IF Len(uv_points) # Len(screens)
        THEN [ret |-> Err("ValueError"), trace |-> trace]
        ELSE Fit(ConvertDetections(screens, uv_points, 1, <<>>, trace))

ComputeBeamMetrics(screens, uv_points, z_beam_position, sigmas) ==
    ComputeBeamMetricsFrom(screens, uv_points, z_beam_position, sigmas, <<>>)

\* The loop of beam_metrics_from_images over the images, from image k on.
RECURSIVE ExtractDetections(_, _, _, _, _)
ExtractDetections(images, k, uv_points, sigmas, trace) ==
    IF k > Len(images)
    THEN [ret |-> Ok(<<uv_points, sigmas>>), trace |-> trace]
    ELSE LET Store(found, called) ==
                 IF ~found.ok THEN [ret |-> found, trace |-> called]
                 ELSE ExtractDetections(images, k + 1,
                                        Append(uv_points, Detection(found.val[1])),
                                        Append(sigmas, found.val[2]), called)
         IN  Store(ExtractBeamPosition(images[k]),
                   Append(trace, [fn |-> "extract_beam_position", screen |-> k,
                                  arg |-> images[k]]))

\* beam_metrics_from_images without its own count check: the images are
\* searched first and compute_beam_metrics counts the detections.
BeamMetricsFromImagesChecksLate(screens, images, z_beam_position) ==
    LET Compute(extracted) ==
            IF ~extracted.ret.ok THEN extracted
            ELSE ComputeBeamMetricsFrom(screens, extracted.ret.val[1], z_beam_position,
                                        Sigmas(extracted.ret.val[2]), extracted.trace)
    IN  Compute(ExtractDetections(images, 1, <<>>, <<>>, <<>>))

\* ScreenBPM.beam_metrics_from_images.
BeamMetricsFromImages(screens, images, z_beam_position) ==
    LET Compute(extracted) ==
            IF ~extracted.ret.ok THEN extracted
            ELSE ComputeBeamMetricsFrom(screens, extracted.ret.val[1], z_beam_position,
                                        Sigmas(extracted.ret.val[2]), extracted.trace)
    IN  IF Len(images) # Len(screens)
        THEN [ret |-> Err("ValueError"), trace |-> <<>>]
        ELSE Compute(ExtractDetections(images, 1, <<>>, <<>>, <<>>))


(***************************************************************************)
(* Simulated detections and their error  (calibration.py)                  *)
(*                                                                         *)
(* A dictionary of screens is the sequence of its items [name, screen].    *)
(* An array of detections is [shape, data] with data nested as shape says. *)
(***************************************************************************)
\* calibrations_to_screens(calibrations), from item k on.
RECURSIVE CalibrationsToScreensLoop(_, _, _)
CalibrationsToScreensLoop(calibrations, k, screens) ==
    LET Store(screen) ==
            IF ~screen.ok THEN screen
            ELSE CalibrationsToScreensLoop(calibrations, k + 1,
                     Append(screens, [name |-> calibrations[k].name,
                                      screen |-> screen.val]))
    IN  IF k > Len(calibrations) THEN Ok(screens)
        ELSE Store(ScreenFromCalibration(calibrations[k].fields))

CalibrationsToScreens(calibrations) == CalibrationsToScreensLoop(calibrations, 1, <<>>)

\* The loop of evaluate_screen_positions over screens.items(), from item
\* i on.
RECURSIVE EvaluateLoop(_, _, _, _)
EvaluateLoop(ray_nodes, screens, i, uv_intersections) ==
    LET Store(uv_intersection) ==
            IF ~uv_intersection.ok THEN uv_intersection
            ELSE EvaluateLoop(ray_nodes, screens, i + 1,
                              Append(uv_intersections, uv_intersection.val))
        Convert(xyz_intersection) ==
            IF ~xyz_intersection.ok THEN xyz_intersection
            ELSE Store(XyzToUv(screens[i].screen, xyz_intersection.val))
    IN  IF i > Len(screens) THEN Ok(uv_intersections)
        ELSE Convert(ComputeRayIntersection(screens[i].screen, ray_nodes))

\* evaluate_screen_positions(ray_nodes, screens) for an (n_rays, 6) array.
EvaluateScreenPositions(ray_nodes, screens) ==
    LET Shaped(uv) ==
            IF ~uv.ok THEN uv
            ELSE Ok([shape |-> <<Len(screens), Len(ray_nodes), 2>>, data |-> uv.val])
    IN  Shaped(EvaluateLoop(ray_nodes, screens, 1, <<>>))

\* numpy.sum((a - b) ** 2) for two arrays [shape, data] of one shape
\* (n, m, 2).
SumSquaredDifference(a, b) ==
    LET d(i, j, c) == Sub(a.data[i][j][c], b.data[i][j][c])
        ofRay(i, j) == Add(Mul(d(i, j, 1), d(i, j, 1)), Mul(d(i, j, 2), d(i, j, 2)))
        ofScreen(i) == SumSeq([j \in 1..a.shape[2] |-> ofRay(i, j)])
    IN  SumSeq([i \in 1..a.shape[1] |-> ofScreen(i)])

\* compute_error(uv_measured, ray_nodes, screens).
ComputeError(uv_measured, ray_nodes, screens) ==
    LET Compare(uv_simulated) ==
            IF ~uv_simulated.ok THEN uv_simulated
            ELSE IF uv_simulated.val.shape # uv_measured.shape THEN Err("ValueError")
            ELSE Ok(SumSquaredDifference(uv_simulated.val, uv_measured))
    IN  Compare(EvaluateScreenPositions(ray_nodes, screens))

(***************************************************************************)
(* Specification of the beam metrics and of the simulated detections       *)
(*                                                                         *)
(* A behaviour starts either with a ScreenBPM and the arguments of a       *)
(* metrics call, or with calibrations, rays and measured detections.       *)
(* heap.trace holds the collaborator calls of the last metrics call.       *)
(***************************************************************************)
MaxBpmScreens == 3

MaxErrorScreens == 2

\* n parametric screens, all different, screen k standing at z = k.
ParametricScreensOf(n) ==
    [k \in 1..n |->
        ScreenInit(<<I(0), I(k), I(k)>>, <<I(k), I(0), I(0)>>,
                   [scalar |-> FALSE, ndim |-> 1, v |-> <<I(1), I(2)>>],
                   <<I(2), I(-1)>>).val]

\* What slot k of a metrics call holds: nothing, one of two points, or
\* (as an image) an array of three dimensions.
SlotContents == {"none", "first", "second", "volume"}

PointFirst(k) == <<I(k), I(1)>>

PointSecond(k) == <<I(-1), I(k)>>

DetectionOf(content, k) ==
    IF content = "none" THEN None
    ELSE IF content = "first" THEN Detection(PointFirst(k))
    ELSE Detection(PointSecond(k))

\* The image of slot k: no blob, one blob, two blobs with the larger one
\* last, or an array of three dimensions.
ImageOf(content, k) ==
    IF content = "none" THEN [ndim |-> 2, blobs |-> <<>>]
    ELSE IF content = "first"
    THEN [ndim |-> 2, blobs |-> << <<I(k), I(1), I(k + 2)>> >>]
    ELSE IF content = "second"
    THEN [ndim |-> 2, blobs |-> << <<I(k), I(1), I(3)>>, <<I(-1), I(k), I(k + 3)>> >>]
    ELSE [ndim |-> 3, blobs |-> <<>>]

InitMetrics ==
    \E n \in 1..MaxBpmScreens : \E m \in (n - 1)..(n + 1) :
    \E contents \in [1..m -> SlotContents] :
    \E parametric, weighted, far \in BOOLEAN :
       heap = [scenario |-> "metrics",
               screens |-> IF parametric THEN ParametricScreensOf(n) ELSE ScreensOf(n, 0),
               uv_points |-> [k \in 1..m |-> DetectionOf(contents[k], k)],
               images |-> [k \in 1..m |-> ImageOf(contents[k], k)],
               sigmas |-> IF weighted THEN Sigmas([k \in 1..n |-> I(k)]) ELSE NoSigmas,
               z_beam_position |-> [scalar |-> TRUE, v |-> <<IF far THEN I(50) ELSE I(0)>>],
               trace |-> <<>>]

\* Poses of a calibrated screen, as (euler_angles, screen_center): facing
\* the beam or turned by a quarter turn, the screen centre on and off the
\* line u + v = 1.
ErrorPoses ==
    { << <<I(0), I(0), I(0)>>, <<I(0), I(0)>> >>,
      << <<I(0), I(0), I(0)>>, <<I(1), I(0)>> >>,
      << <<I(1), I(0), I(0)>>, <<I(2), I(3)>> >>,
      << <<I(0), I(1), I(0)>>, <<I(2), I(3)>> >> }

ErrorPixelSizes == {<<I(1), I(1)>>, <<I(2), Q(1, 2)>>}

ErrorCalibration(k, euler_angles, screen_center, pixel_size) ==
    [name |-> ScreenNames[k],
     fields |-> << [key |-> "screen_center", isint |-> FALSE, v |-> screen_center],
                   [key |-> "position",      isint |-> FALSE, v |-> <<I(0), I(k), I(k)>>],
                   [key |-> "euler_angles",  isint |-> FALSE, v |-> euler_angles],
                   [key |-> "pixel_size",    isint |-> FALSE, v |-> pixel_size] >>]

\* Rays: along z, oblique, and one with z1 = z2.
ErrorRays ==
    << <<I(0), I(0), I(0), I(0), I(0), I(2)>>,
       <<I(1), I(0), I(0), I(2), I(1), I(1)>>,
       <<I(0), I(0), I(1), I(1), I(1), I(1)>> >>

\* A measured array of the given shape (n, m, 2), every entry 1.
Measured(n, m) ==
    [shape |-> <<n, m, 2>>,
     data |-> [i \in 1..n |-> [j \in 1..m |-> <<I(1), I(1)>>]]]

\* The shapes of uv_measured: that of the simulated array, one screen
\* more, one ray more.
InitError ==
    \E n \in 1..MaxErrorScreens :
    \E poses \in [1..n -> ErrorPoses] :
    \E pixel_size \in ErrorPixelSizes :
    \E first \in 1..Len(ErrorRays) : \E n_rays \in 1..2 :
    \E extra \in {<<0, 0>>, <<1, 0>>, <<0, 1>>} :
       heap = [scenario |-> "error",
               calibrations |-> [k \in 1..n |->
                   ErrorCalibration(k, poses[k][1], poses[k][2], pixel_size)],
               ray_nodes |-> [j \in 1..n_rays |->
                   ErrorRays[((first + j - 2) % Len(ErrorRays)) + 1]],
               uv_measured |-> Measured(n + extra[1], n_rays + extra[2]),
               screens |-> <<>>,
               mid |-> <<>>]

InitBPM ==
    /\ calls = <<>>
    /\ ret = NoRet
    /\ (InitMetrics \/ InitError)
    /\ heap0 = heap

\* bpm.compute_beam_metrics(uv_points, z_beam_position, sigmas)
DoComputeBeamMetrics ==
    /\ heap.scenario = "metrics"
    /\ calls = <<>>
    /\ calls' = <<"compute_beam_metrics">>
    /\ LET r == ComputeBeamMetrics(heap.screens, heap.uv_points,
                                   heap.z_beam_position, heap.sigmas)
       IN  /\ ret' = r.ret
           /\ heap' = [heap EXCEPT !.trace = r.trace]
    /\ UNCHANGED heap0

\* bpm.beam_metrics_from_images(images, z_beam_position)
DoBeamMetricsFromImages ==
    /\ heap.scenario = "metrics"
    /\ calls = <<>>
    /\ calls' = <<"beam_metrics_from_images">>
    /\ LET r == BeamMetricsFromImages(heap.screens, heap.images, heap.z_beam_position)
       IN  /\ ret' = r.ret
           /\ heap' = [heap EXCEPT !.trace = r.trace]
    /\ UNCHANGED heap0

\* screens = calibrations_to_screens(calibrations)
DoCalibrationsToScreens ==
    /\ heap.scenario = "error"
    /\ calls = <<>>
    /\ calls' = <<"calibrations_to_screens">>
    /\ ret' = CalibrationsToScreens(heap.calibrations)
    /\ heap' = [heap EXCEPT !.screens = IF ret'.ok THEN ret'.val ELSE <<>>]
    /\ UNCHANGED heap0

\* evaluate_screen_positions(ray_nodes, screens)
DoEvaluateScreenPositions ==
    /\ calls = <<"calibrations_to_screens">>
    /\ ret.ok
    /\ calls' = Append(calls, "evaluate_screen_positions")
    /\ ret' = EvaluateScreenPositions(heap.ray_nodes, heap.screens)
    /\ UNCHANGED <<heap, heap0>>

\* compute_error(uv_measured, ray_nodes, screens)
DoComputeError ==
    /\ calls = <<"calibrations_to_screens">>
    /\ ret.ok
    /\ calls' = Append(calls, "compute_error")
    /\ ret' = ComputeError(heap.uv_measured, heap.ray_nodes, heap.screens)
    /\ UNCHANGED <<heap, heap0>>

\* compute_error(evaluate_screen_positions(ray_nodes, screens), ray_nodes,
\* screens)
DoComputeErrorOfResult ==
    /\ calls = <<"calibrations_to_screens", "evaluate_screen_positions">>
    /\ ret.ok
    /\ calls' = Append(calls, "compute_error")
    /\ ret' = ComputeError(ret.val, heap.ray_nodes, heap.screens)
    /\ heap' = [heap EXCEPT !.mid = ret.val]
    /\ UNCHANGED heap0

NextBPM ==
    \/ DoComputeBeamMetrics
    \/ DoBeamMetricsFromImages
    \/ DoCalibrationsToScreens
    \/ DoEvaluateScreenPositions
    \/ DoComputeError
    \/ DoComputeErrorOfResult

SpecBPM == InitBPM /\ [][NextBPM]_vars


(***************************************************************************)
(* Claims about the beam metrics and the simulated detections              *)
(***************************************************************************)
\* The indices of the slots of uv_points that hold a detection, ascending.
PresentIndices(uv_points) ==
    SelectSeq([i \in 1..Len(uv_points) |-> i], LAMBDA i : ~uv_points[i].none)

\* The point that screen i makes of detection i.
ConvertedPoint(i) == UvToXyz(heap0.screens[i], heap0.uv_points[i].uv).val[1]

PointIsFinite(p) == \A c \in 1..Len(p) : IsFinite(p[c])

\* C5: compute_beam_metrics with as many uv_points as screens converts
\* detection i with screen i, for exactly the slots that are not None and
\* in screen order, and hands exactly these points to fit_ray; with no
\* sigmas given and at least one detection present, all of them finite
\* points, the call returns normally whichever slots are None.
C5_DetectionsPairedWithScreens ==
    (calls = <<"compute_beam_metrics">> /\ Len(heap0.uv_points) = Len(heap0.screens)) =>
        LET present == PresentIndices(heap0.uv_points)
            n == Len(present)
        IN  /\ Len(heap.trace) = n + 1
            /\ \A j \in 1..n :
                  heap.trace[j] = [fn |-> "uv_to_xyz", screen |-> present[j],
                                   arg |-> heap0.uv_points[present[j]].uv]
            /\ heap.trace[n + 1] =
                  [fn |-> "fit_ray", screen |-> 0,
                   arg |-> [j \in 1..n |-> ConvertedPoint(present[j])]]
            /\ (/\ heap0.sigmas.none
                /\ n >= 1
                /\ \A j \in 1..n : PointIsFinite(ConvertedPoint(present[j])))
               => ret.ok

\* C5 witness: a call with the first slot None and two detections behind
\* it returns beam position and angles.
C5_Witness ==
    /\ calls = <<"compute_beam_metrics">>
    /\ Len(heap0.uv_points) = Len(heap0.screens)
    /\ Len(heap0.uv_points) = 3
    /\ heap0.uv_points[1].none
    /\ Len(PresentIndices(heap0.uv_points)) = 2
    /\ heap.trace[3].fn = "fit_ray"
    /\ ret.ok

\* The shape of the array evaluate_screen_positions returns for the
\* screens and rays of the state.
SimulatedShape == <<Len(heap.screens), Len(heap.ray_nodes), 2>>

\* C6: compute_beam_metrics and beam_metrics_from_images called with a
\* number of uv_points or images other than the number of screens raise
\* ValueError with no detection extracted, no point converted and no ray
\* fitted; compute_error called with a uv_measured whose shape is not
\* (n_screens, n_rays, 2) raises ValueError.
C6_MismatchRejected ==
    /\ (calls = <<"compute_beam_metrics">> /\ Len(heap0.uv_points) # Len(heap0.screens))
          => (ret = Err("ValueError") /\ heap.trace = <<>>)
    /\ (calls = <<"beam_metrics_from_images">> /\ Len(heap0.images) # Len(heap0.screens))
          => (ret = Err("ValueError") /\ heap.trace = <<>>)
    /\ (calls = <<"calibrations_to_screens", "compute_error">>
           /\ heap.uv_measured.shape # SimulatedShape)
          => ret = Err("ValueError")

\* C6 witness: beam_metrics_from_images with one image more than screens,
\* every image showing a blob, is rejected with nothing extracted.
C6_Witness ==
    /\ calls = <<"beam_metrics_from_images">>
    /\ Len(heap0.images) = Len(heap0.screens) + 1
    /\ \A k \in 1..Len(heap0.images) : Len(heap0.images[k].blobs) >= 1
    /\ ret = Err("ValueError")
    /\ heap.trace = <<>>

\* C6 witness: compute_error with measured detections of one ray more
\* than given is rejected.
C6_WitnessShape ==
    /\ calls = <<"calibrations_to_screens", "compute_error">>
    /\ heap.uv_measured.shape = <<Len(heap.screens), Len(heap.ray_nodes) + 1, 2>>
    /\ ret = Err("ValueError")

\* Whether ray (x1, y1, z1, x2, y2, z2) runs parallel to the plane of the
\* screen: its direction is orthogonal to the rotated z axis.
RayParallelTo(screen, ray) ==
    Dot(VecSub(SubSeq(ray, 4, 6), SubSeq(ray, 1, 3)),
        [r \in 1..3 |-> screen.rotation[r][3]]) = I(0)

\* C7: for screens built by calibrations_to_screens and rays with
\* z1 # z2, none of them parallel to a screen, the error of the simulated
\* detections against themselves is 0.
C7_ZeroSelfError ==
    (/\ calls = <<"calibrations_to_screens", "evaluate_screen_positions", "compute_error">>
     /\ \A j \in 1..Len(heap.ray_nodes) : heap.ray_nodes[j][3] # heap.ray_nodes[j][6]
     /\ \A i \in 1..Len(heap.screens) : \A j \in 1..Len(heap.ray_nodes) :
           ~RayParallelTo(heap.screens[i].screen, heap.ray_nodes[j]))
    => ret = Ok(I(0))


(***************************************************************************)
(* Specification of one screen                                             *)
(*                                                                         *)
(* A behaviour constructs a Screen or a HomographyScreen from heap.args    *)
(* and calls its conversions, or calls compute_beam_position on a ray.     *)
(***************************************************************************)
\* Largest absolute value of a coordinate of a uv point.
MaxCoordinate == 1

UvPoints == {<<I(u), I(v)>> : u, v \in (-MaxCoordinate)..MaxCoordinate}

\* A homography of rank 2.
HomographySingular == << <<I(1), I(2), I(0)>>, <<I(2), I(4), I(0)>>, <<I(0), I(0), I(1)>> >>

\* Rays: along z, oblique, with z1 = z2, with both nodes the same, and
\* oblique with z2 < z1.
ScreenRays ==
    { <<I(0), I(0), I(0), I(0), I(0), I(2)>>,
      <<I(1), I(0), I(0), I(2), I(1), I(1)>>,
      <<I(0), I(0), I(1), I(1), I(1), I(1)>>,
      <<I(0), I(0), I(1), I(0), I(0), I(1)>>,
      <<I(1), I(2), I(12), I(-1), I(0), I(9)>> }

ScreenEulerAngles ==
    { <<I(0), I(0), I(0)>>, <<I(1), I(0), I(0)>>, <<I(0), I(1), I(0)>>,
      <<I(0), I(0), I(1)>>, <<I(1), I(2), I(3)>> }

\* pixel_size arguments: a float, a list of one element, lists of two with
\* a negative and with a zero element.
ScreenPixelSizes ==
    { [scalar |-> TRUE,  ndim |-> 0, v |-> <<I(2)>>],
      [scalar |-> FALSE, ndim |-> 1, v |-> <<Q(1, 2)>>],
      [scalar |-> FALSE, ndim |-> 1, v |-> <<I(-1), Q(3, 2)>>],
      [scalar |-> FALSE, ndim |-> 1, v |-> <<I(0), I(1)>>] }

ScreenCenters == {<<I(0), I(0)>>, <<I(1), I(0)>>, <<I(2), Q(-1, 2)>>}

InitScreen ==
    /\ calls = <<>>
    /\ ret = NoRet
    /\ \E uv \in UvPoints : \E ray \in ScreenRays : \E far \in BOOLEAN :
          \/ \E euler_angles \in ScreenEulerAngles : \E pixel_size \in ScreenPixelSizes :
             \E screen_center \in ScreenCenters :
                heap = [kind |-> "Screen",
                        args |-> [position |-> <<I(1), I(-2), I(3)>>,
                                  euler_angles |-> euler_angles,
                                  pixel_size |-> pixel_size,
                                  screen_center |-> screen_center],
                        screen |-> <<>>, uv |-> uv, ray_nodes |-> <<ray>>,
                        z_beam_position |-> [scalar |-> TRUE,
                                             v |-> <<IF far THEN I(5) ELSE I(1)>>],
                        xy_offset |-> <<I(0), I(0)>>, mid |-> <<>>]
          \/ \E homography \in {Homographies[k] : k \in 1..Len(Homographies)}
                                  \cup {HomographySingular} :
             \E xy_offset \in {<<I(0), I(0)>>, <<I(1), I(-1)>>} :
                heap = [kind |-> "HomographyScreen",
                        args |-> [z_position |-> I(10), homography |-> homography],
                        screen |-> <<>>, uv |-> uv, ray_nodes |-> <<ray>>,
                        z_beam_position |-> [scalar |-> TRUE,
                                             v |-> <<IF far THEN I(5) ELSE I(1)>>],
                        xy_offset |-> xy_offset, mid |-> <<>>]
    /\ heap0 = heap

LastCall == IF calls = <<>> THEN "" ELSE calls[Len(calls)]

\* screen = Screen(position, euler_angles, pixel_size, screen_center)
DoScreenInit ==
    /\ calls = <<>>
    /\ heap.kind = "Screen"
    /\ calls' = <<"Screen">>
    /\ ret' = ScreenInit(heap.args.position, heap.args.euler_angles,
                         heap.args.pixel_size, heap.args.screen_center)
    /\ heap' = [heap EXCEPT !.screen = IF ret'.ok THEN ret'.val ELSE <<>>]
    /\ UNCHANGED heap0

\* screen = HomographyScreen(z_position, homography), or, as in
\* homography_screen_tests.py, HomographyScreen(z_position, homography,
\* xy_offset=xy_offset)
DoHomographyScreenInit ==
    /\ calls = <<>>
    /\ heap.kind = "HomographyScreen"
    /\ \E keywords \in {{}, {"xy_offset"}} :
          /\ calls' = <<IF keywords = {} THEN "HomographyScreen"
                        ELSE "HomographyScreen(xy_offset)">>
          /\ ret' = HomographyScreenInit(heap.args.z_position, heap.args.homography,
                                         keywords)
    /\ heap' = [heap EXCEPT !.screen = IF ret'.ok THEN ret'.val ELSE <<>>]
    /\ UNCHANGED heap0

\* screen.xy_offset = xy_offset, as Viewer.process_data does
DoSetXyOffset ==
    /\ calls = <<"HomographyScreen">>
    /\ calls' = Append(calls, "set_xy_offset")
    /\ heap' = [heap EXCEPT !.screen =
                   [kind |-> heap.screen.kind, z_position |-> heap.screen.z_position,
                    homography |-> heap.screen.homography,
                    xy_offset |-> heap.xy_offset]]
    /\ UNCHANGED <<ret, heap0>>

\* screen.uv_to_xyz(uv)
DoUvToXyz ==
    /\ \/ LastCall \in {"HomographyScreen", "set_xy_offset"}
       \/ LastCall = "Screen" /\ ret.ok
    /\ calls' = Append(calls, "uv_to_xyz")
    /\ ret' = UvToXyz(heap.screen, heap.uv)
    /\ UNCHANGED <<heap, heap0>>

\* screen.xyz_to_uv(screen.uv_to_xyz(uv))
DoXyzToUvOfResult ==
    /\ LastCall = "uv_to_xyz"
    /\ ret.ok
    /\ calls' = Append(calls, "xyz_to_uv")
    /\ ret' = XyzToUv(heap.screen, ret.val)
    /\ heap' = [heap EXCEPT !.mid = ret.val]
    /\ UNCHANGED heap0

\* screen.compute_ray_intersection(ray_nodes)
DoComputeRayIntersection ==
    /\ \/ LastCall = "HomographyScreen"
       \/ LastCall = "Screen" /\ ret.ok
    /\ calls' = Append(calls, "compute_ray_intersection")
    /\ ret' = ComputeRayIntersection(heap.screen, heap.ray_nodes)
    /\ UNCHANGED <<heap, heap0>>

\* screen.compute_normal()
DoComputeNormal ==
    /\ LastCall = "Screen"
    /\ ret.ok
    /\ calls' = Append(calls, "compute_normal")
    /\ ret' = Ok(ComputeNormal(heap.screen))
    /\ UNCHANGED <<heap, heap0>>

\* compute_beam_position(ray_nodes, z_beam_position)
DoComputeBeamPosition ==
    /\ calls = <<>>
    /\ calls' = <<"compute_beam_position">>
    /\ ret' = ComputeBeamPosition(heap.ray_nodes, heap.z_beam_position)
    /\ UNCHANGED <<heap, heap0>>

NextScreen ==
    \/ DoScreenInit
    \/ DoHomographyScreenInit
    \/ DoSetXyOffset
    \/ DoUvToXyz
    \/ DoXyzToUvOfResult
    \/ DoComputeRayIntersection
    \/ DoComputeNormal
    \/ DoComputeBeamPosition

SpecScreen == InitScreen /\ [][NextScreen]_vars


(***************************************************************************)
(* Claims about one screen                                                 *)
(***************************************************************************)
\* The call sequence ends with uv_to_xyz and xyz_to_uv of its result, on
\* a Screen with non-zero pixel sizes or a HomographyScreen with an
\* invertible homography.
RoundTripDone ==
    /\ Len(calls) >= 2
    /\ calls[Len(calls) - 1] = "uv_to_xyz"
    /\ calls[Len(calls)] = "xyz_to_uv"
    /\ IF heap.kind = "Screen"
       THEN heap.screen.pixel_size[1] # I(0) /\ heap.screen.pixel_size[2] # I(0)
       ELSE Det3(heap.screen.homography) # I(0)

\* The third homogeneous coordinate of the image of uv under the
\* homography of the screen.
HomogeneousScale(screen, uv) ==
    Dot(screen.homography[3], <<uv[1], uv[2], I(1)>>)

\* C8 as stated: on every such screen and for every uv point,
\* xyz_to_uv(uv_to_xyz(uv)) is uv.
C8_RoundTripEveryPoint ==
    RoundTripDone => ret = Ok(<<heap.uv>>)

\* C8: on a Screen with non-zero pixel sizes xyz_to_uv(uv_to_xyz(uv)) is
\* uv for every uv point; on a HomographyScreen with an invertible
\* homography it is uv for every uv point whose image has a non-zero
\* third homogeneous coordinate (h31 u + h32 v + h33 # 0).
C8_RoundTripOffVanishingLine ==
    (/\ RoundTripDone
     /\ heap.kind = "HomographyScreen" => HomogeneousScale(heap.screen, heap.uv) # I(0))
    => ret = Ok(<<heap.uv>>)

\* C8 witness: a round trip that returns uv on a HomographyScreen whose
\* homography has a projective last row, and the point is not the origin.
C8_Witness ==
    /\ RoundTripDone
    /\ heap.kind = "HomographyScreen"
    /\ heap.screen.homography = HomographyProjective
    /\ heap.uv = <<I(1), I(-1)>>
    /\ ret = Ok(<<heap.uv>>)

\* C8 witness: a round trip that returns uv on a turned Screen with a
\* negative pixel size and the screen centre off the origin.
C8_WitnessScreen ==
    /\ RoundTripDone
    /\ heap.kind = "Screen"
    /\ heap.args.euler_angles = <<I(1), I(2), I(3)>>
    /\ heap.screen.pixel_size = <<I(-1), Q(3, 2)>>
    /\ heap.screen.screen_center = <<I(2), Q(-1, 2)>>
    /\ heap.uv = <<I(1), I(-1)>>
    /\ ret = Ok(<<heap.uv>>)

\* C9: a HomographyScreen can be constructed with xy_offset=..., and once
\* xy_offset is set on the object uv_to_xyz returns the homography image
\* of uv shifted by xy_offset in x and y (for an image with non-zero
\* third homogeneous coordinate).
C9_XyOffsetApplied ==
    /\ calls = <<"HomographyScreen(xy_offset)">> => ret.ok
    /\ (/\ calls = <<"HomographyScreen", "set_xy_offset", "uv_to_xyz">>
        /\ HomogeneousScale(heap.screen, heap.uv) # I(0))
       => LET image == HomographyUvToXyz([z_position |-> heap.args.z_position,
                                          homography |-> heap.args.homography],
                                         [ndim |-> 1, rows |-> <<heap.uv>>]).val[1]
          IN  ret = Ok(<< <<Add(image[1], heap.xy_offset[1]),
                            Add(image[2], heap.xy_offset[2]), image[3]>> >>)

\* C9, the attribute alone: once xy_offset is set on the object,
\* uv_to_xyz returns the shifted homography image.
C9_XyOffsetAttributeApplied ==
    (/\ calls = <<"HomographyScreen", "set_xy_offset", "uv_to_xyz">>
     /\ HomogeneousScale(heap.screen, heap.uv) # I(0))
    => LET image == HomographyUvToXyz([z_position |-> heap.args.z_position,
                                       homography |-> heap.args.homography],
                                      [ndim |-> 1, rows |-> <<heap.uv>>]).val[1]
       IN  ret = Ok(<< <<Add(image[1], heap.xy_offset[1]),
                         Add(image[2], heap.xy_offset[2]), image[3]>> >>)

\* C10: compute_beam_position and HomographyScreen.compute_ray_intersection
\* on a ray with z1 = z2, and Screen.compute_ray_intersection on a ray
\* parallel to the screen plane, end in an exception.
C10_DegenerateRayFails ==
    /\ (/\ LastCall \in {"compute_beam_position", "compute_ray_intersection"}
        /\ heap.kind = "HomographyScreen" \/ LastCall = "compute_beam_position"
        /\ heap.ray_nodes[1][3] = heap.ray_nodes[1][6])
       => ~ret.ok
    /\ (/\ LastCall = "compute_ray_intersection"
        /\ heap.kind = "Screen"
        /\ RayParallelTo(heap.screen, heap.ray_nodes[1]))
       => ~ret.ok


\* C12: on a Screen with euler_angles (0, 0, 0) and positive pixel sizes
\* compute_normal returns (0, 0, 1), whatever the screen centre.
C12_NormalAlongZ ==
    (/\ calls = <<"Screen", "compute_normal">>
     /\ heap.args.euler_angles = <<I(0), I(0), I(0)>>
     /\ Less(I(0), heap.screen.pixel_size[1])
     /\ Less(I(0), heap.screen.pixel_size[2]))
    => ret = Ok(<<I(0), I(0), I(1)>>)


(***************************************************************************)
(* Specification of the flattening functions under a mask that does not    *)
(* mirror the calibration                                                  *)
(***************************************************************************)
\* The ways a mask can differ in shape from the calibration it is used
\* with.
MaskMismatches ==
    {"extra_screen", "missing_screen", "extra_field", "missing_field", "longer", "shorter"}

\* The mask made of a mirroring mask by one mismatch; b is the boolean the
\* added part is filled with (the first entry of an added screen).
MismatchedMask(mask, kind, b) ==
    CASE kind = "extra_screen" ->
           Append(mask,
                  [name |-> ScreenNames[Len(mask) + 1],
                   fields |-> [f \in 1..Len(mask[1].fields) |->
                       [key |-> mask[1].fields[f].key,
                        v |-> [i \in 1..Len(mask[1].fields[f].v) |->
                                  b /\ f = 1 /\ i = 1]]]])
      [] kind = "missing_screen" -> SubSeq(mask, 1, Len(mask) - 1)
      [] kind = "extra_field" ->
           [mask EXCEPT ![1].fields = Append(@, [key |-> "exposure", v |-> <<b>>])]
      [] kind = "missing_field" ->
           [mask EXCEPT ![1].fields = SubSeq(@, 1, Len(@) - 1)]
      [] kind = "longer" -> [mask EXCEPT ![1].fields[1].v = Append(@, b)]
      [] kind = "shorter" -> [mask EXCEPT ![1].fields[1].v = SubSeq(@, 1, Len(@) - 1)]

\* Number of True entries of a mask.
CountTrue(mask) == Cardinality({k \in 1..Len(Positions(mask)) : TrueAt(mask, k)})

\* A calibration, a mask that differs from its shape by one mismatch, and
\* either as many array elements as the calibration has entries selected
\* by the mask before the mismatch, or as many as the mask has True
\* entries.
InitMask ==
    /\ calls = <<>>
    /\ ret = NoRet
    /\ \E n \in 1..MaxScreens : \E cal \in CalibrationsOf(n) :
       \E T \in SubsetsUpTo({Positions(cal)[k] : k \in 1..Len(Positions(cal))}, 1) :
       \E kind \in MaskMismatches : \E b \in BOOLEAN : \E counted \in BOOLEAN :
          heap = [cal |-> cal, mask |-> MismatchedMask(MaskOf(cal, T), kind, b),
                  arr |-> SubSeq(ArrayValuesA, 1,
                                 IF counted
                                 THEN CountTrue(MismatchedMask(MaskOf(cal, T), kind, b))
                                 ELSE Cardinality(T)),
                  scaler |-> DefaultCalibrationScaler,
                  mismatch |-> kind,
                  mid |-> <<>>]
    /\ heap0 = heap

SpecMask == InitMask /\ [][NextCalibration]_vars

\* C11: each of calibration_to_array, array_to_calibration and
\* apply_calibration_scaler, called with a mask that does not mirror the
\* calibration, ends in an error, and so does unapply_calibration_scaler
\* called with such a mask on a flattened array.
C11_MismatchedMaskFails ==
    (\/ Len(calls) = 1
     \/ calls = <<"calibration_to_array", "unapply_calibration_scaler">>) => ~ret.ok


(***************************************************************************)
(* Specification of the ray operations                                     *)
(*                                                                         *)
(* A behaviour starts either with a batch of rays and the target z of      *)
(* compute_beam_position, or with the points and sigmas of fit_ray.        *)
(***************************************************************************)
\* Largest number of rays in a batch.
MaxRays == 3

\* Largest number of target z positions.
MaxTargets == 3

\* Largest number of points fitted.
MaxFitPoints == 3

\* Rays with z1 # z2: two of ray_operations_tests.py, one that runs
\* towards smaller z, and one that runs towards smaller z and smaller x.
RayChoices ==
    { <<I(0), I(0), I(0), I(1), I(0), I(1)>>,
      <<Q(1, 2), I(-1), I(0), I(1), I(-1), I(1)>>,
      <<I(1), I(2), I(3), I(2), I(0), I(1)>>,
      <<I(0), I(1), I(2), I(-3), I(1), I(0)>> }

TargetChoices == {I(10), I(0), I(-1)}

\* The z_beam_position arguments: a number, or a sequence of 1 to
\* MaxTargets numbers.
TargetArguments ==
    {[scalar |-> TRUE, v |-> <<z>>] : z \in TargetChoices}
    \cup UNION {{[scalar |-> FALSE, v |-> v] : v \in SeqsOfLen(TargetChoices, k)}
                : k \in 1..MaxTargets}

InitRayPosition ==
    \E n \in 1..MaxRays : \E rays \in SeqsOfLen(RayChoices, n) :
    \E z_beam_position \in TargetArguments :
       heap = [scenario |-> "position", ray_nodes |-> rays,
               z_beam_position |-> z_beam_position,
               xyz_positions |-> <<>>, sigmas |-> NoSigmas]

\* Points measured on screens at z = 0, 1/2 and 1; two of them share z.
FitPointChoices ==
    { <<I(0), I(0), I(0)>>, <<I(3), I(-3), Q(1, 2)>>,
      <<I(2), I(-1), I(1)>>, <<I(0), I(4), I(1)>> }

\* The sigmas arguments for n points: None, or every point with the same
\* uncertainty but for at most one, whose uncertainty is 10 or 30 times
\* larger; the unit of the uncertainties is 1 or 3.
SigmaArguments(n) ==
    {NoSigmas}
    \cup {Sigmas([i \in 1..n |-> IF i = k THEN Mul(big, unit) ELSE unit])
          : k \in 0..n, big \in {I(10), I(30)}, unit \in {I(1), I(3)}}

InitFit ==
    \E n \in 1..MaxFitPoints : \E points \in SeqsOfLen(FitPointChoices, n) :
    \E sigmas \in SigmaArguments(n) :
       heap = [scenario |-> "fit", ray_nodes |-> <<>>,
               z_beam_position |-> [scalar |-> TRUE, v |-> <<I(0)>>],
               xyz_positions |-> points, sigmas |-> sigmas]

InitRay ==
    /\ calls = <<>>
    /\ ret = NoRet
    /\ InitRayPosition \/ InitFit
    /\ heap0 = heap

\* compute_xy_angles(ray_nodes)
DoComputeXyAngles ==
    /\ calls = <<>>
    /\ heap.scenario = "position"
    /\ calls' = <<"compute_xy_angles">>
    /\ ret' = Ok(ComputeXyAngles(heap.ray_nodes))
    /\ UNCHANGED <<heap, heap0>>

\* compute_beam_position(ray_nodes, z_beam_position)
DoRayBeamPosition ==
    /\ heap.scenario = "position"
    /\ DoComputeBeamPosition

\* fit_ray(xyz_positions, sigmas)
DoFitRay ==
    /\ calls = <<>>
    /\ heap.scenario = "fit"
    /\ calls' = <<"fit_ray">>
    /\ ret' = FitRay(heap.xyz_positions, heap.sigmas)
    /\ UNCHANGED <<heap, heap0>>

NextRay ==
    \/ DoComputeXyAngles
    \/ DoRayBeamPosition
    \/ DoFitRay

SpecRay == InitRay /\ [][NextRay]_vars


(***************************************************************************)
(* Claims about the ray operations                                         *)
(***************************************************************************)
\* The coordinate at z of the line through (a1, z1) and (a2, z2).
Interpolated(a1, z1, a2, z2, z) ==
    Add(a1, Mul(Sub(a2, a1), Div(Sub(z, z1), Sub(z2, z1))))

\* The point (x, y) of a ray at z.
RayAt(ray, z) ==
    << Interpolated(ray[1], ray[3], ray[4], ray[6], z),
       Interpolated(ray[2], ray[3], ray[5], ray[6], z) >>

\* C13: for one ray with z1 # z2, compute_beam_position returns the point
\* of the ray at z for a number z (and for a sequence of one z), and for a
\* sequence of two or more target z the points of the ray at the targets,
\* in the order of the targets.
C13_LinearInterpolation ==
    (/\ calls = <<"compute_beam_position">>
     /\ Len(heap.ray_nodes) = 1
     /\ heap.ray_nodes[1][3] # heap.ray_nodes[1][6])
    => IF Len(heap.z_beam_position.v) = 1
       THEN ret = Ok(RayAt(heap.ray_nodes[1], heap.z_beam_position.v[1]))
       ELSE ret = Ok([k \in 1..Len(heap.z_beam_position.v) |->
                         RayAt(heap.ray_nodes[1], heap.z_beam_position.v[k])])

\* C13 witness: an oblique ray evaluated at three targets given in
\* descending and then ascending order of z.
C13_Witness ==
    /\ calls = <<"compute_beam_position">>
    /\ heap.ray_nodes = << <<I(1), I(2), I(3), I(2), I(0), I(1)>> >>
    /\ heap.z_beam_position = [scalar |-> FALSE, v |-> <<I(10), I(-1), I(0)>>]
    /\ ret = Ok(<< <<Q(-5, 2), I(9)>>, <<I(3), I(-2)>>, <<Q(5, 2), I(-1)>> >>)


\* The (x, y) pairs that compute_beam_position returned: the one pair of a
\* squeezed result, or the rows of an (m, 2) array.
ReturnedPositions ==
    IF Len(heap.ray_nodes) = 1 /\ Len(heap.z_beam_position.v) = 1
    THEN {ret.val}
    ELSE {ret.val[k] : k \in 1..Len(ret.val)}

\* C14: for a batch of N >= 1 rays and K >= 1 target z positions
\* compute_beam_position returns normally, and the point of every ray at
\* every target is among the positions returned.
C14_EveryRayAtEveryTarget ==
    (/\ calls = <<"compute_beam_position">>
     /\ \A j \in 1..Len(heap.ray_nodes) : heap.ray_nodes[j][3] # heap.ray_nodes[j][6])
    => /\ ret.ok
       /\ \A j \in 1..Len(heap.ray_nodes) : \A k \in 1..Len(heap.z_beam_position.v) :
             RayAt(heap.ray_nodes[j], heap.z_beam_position.v[k]) \in ReturnedPositions

\* C14, the part that holds: N rays and one target give the points of the
\* N rays at the target, in the order of the rays.
C14_BatchAtOneTarget ==
    (/\ calls = <<"compute_beam_position">>
     /\ Len(heap.ray_nodes) >= 2
     /\ Len(heap.z_beam_position.v) = 1)
    => ret = Ok([j \in 1..Len(heap.ray_nodes) |->
                    RayAt(heap.ray_nodes[j], heap.z_beam_position.v[1])])

\* atan2(d, dz) for dz # 0: arctan(d/dz) for dz > 0, and arctan(d/dz)
\* moved by pi into the second or third quadrant for dz < 0.
Atan2(d, dz) ==
    IF Less(I(0), dz) THEN <<"arctan", Div(d, dz)>>
    ELSE IF Less(d, I(0)) THEN <<"arctan-pi", Div(d, dz)>>
    ELSE <<"arctan+pi", Div(d, dz)>>

\* C15: for rays with z1 # z2 compute_xy_angles returns
\* atan2(x2 - x1, z2 - z1) of every ray, then atan2(y2 - y1, z2 - z1) of
\* every ray.
C15_AnglesAreAtan2 ==
    calls = <<"compute_xy_angles">> =>
        LET n == Len(heap.ray_nodes)
            delta(j, a, b) == Sub(heap.ray_nodes[j][b], heap.ray_nodes[j][a])
        IN  /\ ret.ok
            /\ Len(ret.val) = 2 * n
            /\ \A j \in 1..n :
                  /\ ret.val[j] = Atan2(delta(j, 1, 4), delta(j, 3, 6))
                  /\ ret.val[n + j] = Atan2(delta(j, 2, 5), delta(j, 3, 6))

\* C15, the part that holds: for rays with z2 > z1 the angles are
\* atan2 of the differences.
C15_AnglesForwardRays ==
    (/\ calls = <<"compute_xy_angles">>
     /\ \A j \in 1..Len(heap.ray_nodes) :
           Less(heap.ray_nodes[j][3], heap.ray_nodes[j][6]))
    => LET n == Len(heap.ray_nodes)
           delta(j, a, b) == Sub(heap.ray_nodes[j][b], heap.ray_nodes[j][a])
       IN  \A j \in 1..n :
              /\ ret.val[j] = Atan2(delta(j, 1, 4), delta(j, 3, 6))
              /\ ret.val[n + j] = Atan2(delta(j, 2, 5), delta(j, 3, 6))


\* The z coordinates of the points given to fit_ray.
FittedZ == {heap.xyz_positions[k][3] : k \in 1..Len(heap.xyz_positions)}

\* C16: fit_ray returns a ray whose first node is at the smallest and
\* whose second node is at the largest z of the points, in whatever order
\* they are given; given exactly two points with distinct z, with or
\* without sigmas, the ray passes through both points.
C16_RaySpansFittedPoints ==
    calls = <<"fit_ray">> =>
        /\ ret.ok
        /\ ret.val[3] \in FittedZ
        /\ ret.val[6] \in FittedZ
        /\ \A z \in FittedZ : ~Less(z, ret.val[3]) /\ ~Less(ret.val[6], z)
        /\ (/\ Len(heap.xyz_positions) = 2
            /\ heap.xyz_positions[1][3] # heap.xyz_positions[2][3])
           => \A k \in 1..2 :
                 RayAt(ret.val, heap.xyz_positions[k][3]) =
                     <<heap.xyz_positions[k][1], heap.xyz_positions[k][2]>>

\* C16 witness: two points given in descending order of z, with unequal
\* sigmas; the ray runs from the second point to the first.
C16_Witness ==
    /\ calls = <<"fit_ray">>
    /\ heap.xyz_positions = << <<I(2), I(-1), I(1)>>, <<I(3), I(-3), Q(1, 2)>> >>
    /\ heap.sigmas = Sigmas(<<I(1), I(10)>>)
    /\ ret = Ok(<<I(3), I(-3), Q(1, 2), I(2), I(-1), I(1)>>)

\* The absolute value of a number.
AbsQ(a) == <<Abs(a[1]), a[2]>>

\* The sigmas multiplied by the positive constant c.
ScaledSigmas(sigmas, c) ==
    IF sigmas.none THEN sigmas
    ELSE Sigmas([k \in 1..Len(sigmas.v) |-> Mul(sigmas.v[k], c)])

\* The points given to fit_ray but for point k.
OtherPoints(k) ==
    SelectSeq([i \in 1..Len(heap.xyz_positions) |-> i], LAMBDA i : i # k)

\* Whether a fit of three points stands in state: point k has a sigma
\* larger than the common sigma of the other two, whose z differ.
OneUncertainPoint(k) ==
    /\ calls = <<"fit_ray">>
    /\ Len(heap.xyz_positions) = 3
    /\ ~heap.sigmas.none
    /\ heap.sigmas.v[OtherPoints(k)[1]] = heap.sigmas.v[OtherPoints(k)[2]]
    /\ Less(heap.sigmas.v[OtherPoints(k)[1]], heap.sigmas.v[k])
    /\ heap.xyz_positions[OtherPoints(k)[1]][3] # heap.xyz_positions[OtherPoints(k)[2]][3]

\* The line through the two points other than point k, as a ray.
LineOfOthers(k) ==
    heap.xyz_positions[OtherPoints(k)[1]] \o heap.xyz_positions[OtherPoints(k)[2]]

FittedPoints == heap.trace[Len(heap.trace)].arg

\* C18: a compute_beam_metrics call that hands fit_ray fewer than two
\* points, or points that all share one z, ends in an exception.
C18_TooFewPointsFail ==
    (/\ calls = <<"compute_beam_metrics">>
     /\ heap.trace # <<>>
     /\ heap.trace[Len(heap.trace)].fn = "fit_ray"
     /\ Cardinality({FittedPoints[k][3] : k \in 1..Len(FittedPoints)}) < 2)
    => ~ret.ok

\* C18, the part that holds: with every slot None the call ends in an
\* exception.
C18_NoPointFails ==
    (/\ calls = <<"compute_beam_metrics">>
     /\ heap.trace # <<>>
     /\ heap.trace[Len(heap.trace)].fn = "fit_ray"
     /\ FittedPoints = <<>>)
    => ~ret.ok


(***************************************************************************)
(* Specification of the construction of a Screen                           *)
(***************************************************************************)
\* pixel_size arguments beyond ScreenPixelSizes: the numbers 0 and -1, an
\* empty list, a list of three, a list of two positive numbers, and an
\* array of shape (2, 1) (v lists the entries of its two rows).
PixelSizeArguments ==
    ScreenPixelSizes
    \cup { [scalar |-> TRUE,  ndim |-> 0, v |-> <<I(0)>>],
           [scalar |-> TRUE,  ndim |-> 0, v |-> <<I(-1)>>],
           [scalar |-> FALSE, ndim |-> 1, v |-> <<>>],
           [scalar |-> FALSE, ndim |-> 1, v |-> <<I(1), I(1), I(1)>>],
           [scalar |-> FALSE, ndim |-> 1, v |-> <<I(1), Q(3, 2)>>],
           [scalar |-> FALSE, ndim |-> 2, v |-> <<I(1), I(2)>>] }

InitConstruct ==
    /\ calls = <<>>
    /\ ret = NoRet
    /\ \E euler_angles \in ScreenEulerAngles : \E pixel_size \in PixelSizeArguments :
       \E screen_center \in ScreenCenters :
          heap = [kind |-> "Screen",
                  args |-> [position |-> <<I(1), I(-2), I(3)>>,
                            euler_angles |-> euler_angles,
                            pixel_size |-> pixel_size,
                            screen_center |-> screen_center],
                  screen |-> <<>>]
    /\ heap0 = heap

SpecConstruct == InitConstruct /\ [][DoScreenInit]_vars

\* Whether a pixel_size argument is a positive number or a sequence of one
\* or two positive numbers.
PixelSizeAcceptable(pixel_size) ==
    /\ pixel_size.ndim <= 1
    /\ Len(pixel_size.v) \in {1, 2}
    /\ \A k \in 1..Len(pixel_size.v) : Less(I(0), pixel_size.v[k])

\* C19: Screen(...) succeeds exactly for a pixel_size that is a positive
\* number or a sequence of one or two positive numbers, and the screen
\* then holds the two pixel sizes (one number standing for both); every
\* other pixel_size raises.
C19_PixelSizeTwoPositive ==
    calls = <<"Screen">> =>
        IF PixelSizeAcceptable(heap.args.pixel_size)
        THEN /\ ret.ok
             /\ ret.val.pixel_size =
                    << heap.args.pixel_size.v[1],
                       heap.args.pixel_size.v[Len(heap.args.pixel_size.v)] >>
        ELSE ~ret.ok

\* C19, the part that holds: an acceptable pixel_size is taken over as two
\* numbers, and a sequence of more than two elements or an array of shape
\* (2, k) raises ValueError.
C19_BroadcastAndTooMany ==
    calls = <<"Screen">> =>
        /\ PixelSizeAcceptable(heap.args.pixel_size) =>
              /\ ret.ok
              /\ ret.val.pixel_size =
                     << heap.args.pixel_size.v[1],
                        heap.args.pixel_size.v[Len(heap.args.pixel_size.v)] >>
        /\ (\/ Len(heap.args.pixel_size.v) > 2
            \/ Len(heap.args.pixel_size.v) = 2 /\ heap.args.pixel_size.ndim > 1)
           => ret = Err("ValueError")


(***************************************************************************)
(* Claims about the plane of a HomographyScreen                            *)
(***************************************************************************)
\* Whether a point lies on the line through the two nodes of a ray.
OnRay(point, ray) ==
    Cross(VecSub(point, SubSeq(ray, 1, 3)),
          VecSub(SubSeq(ray, 4, 6), SubSeq(ray, 1, 3))) = <<I(0), I(0), I(0)>>

\* C20: every point that uv_to_xyz of a HomographyScreen returns has
\* z = z_position, and for a ray with z1 # z2 compute_ray_intersection
\* returns a point with z = z_position that lies on the ray.
C20_PointsInScreenPlane ==
    heap.kind = "HomographyScreen" =>
        /\ (LastCall = "uv_to_xyz" /\ ret.ok) =>
              \A k \in 1..Len(ret.val) : ret.val[k][3] = heap.screen.z_position
        /\ (/\ LastCall = "compute_ray_intersection"
            /\ heap.ray_nodes[1][3] # heap.ray_nodes[1][6]) =>
              /\ ret.ok
              /\ Len(ret.val) = 1
              /\ ret.val[1][3] = heap.screen.z_position
              /\ OnRay(ret.val[1], heap.ray_nodes[1])

\* C20 (witness): the ray from (1, 2, 12) to (-1, 0, 9) meets the screen
\* at z_position = 10 in (-1/3, 2/3, 10).
C20_Witness ==
    /\ calls = <<"HomographyScreen", "compute_ray_intersection">>
    /\ heap.ray_nodes = << <<I(1), I(2), I(12), I(-1), I(0), I(9)>> >>
    /\ ret = Ok(<< <<Q(-1, 3), Q(2, 3), I(10)>> >>)

\* C20 (witness for uv_to_xyz): a uv point that the homography sends to
\* infinity still comes back with z = z_position.
C20_WitnessUvToXyz ==
    /\ heap.kind = "HomographyScreen"
    /\ LastCall = "uv_to_xyz"
    /\ ret.ok
    /\ ret.val[1][1][2] = 0
    /\ ret.val[1][3] = I(10)


(***************************************************************************)
(* Conversion of point arguments  (screen.py, homography_screen.py)        *)
(*                                                                         *)
(* A point argument is [array, ndim, rows]: a numpy array (array = TRUE)   *)
(* or a list or tuple, holding one point (ndim = 1, rows = <<point>>) or   *)
(* a sequence of points (ndim = 2).                                        *)
(***************************************************************************)
\* Largest number of points in one argument.
MaxPoints == 2

\* numpy broadcasting of a row of one entry against a vector of n entries.
BroadcastRow(row, n) == IF Len(row) = 1 THEN [k \in 1..n |-> row[1]] ELSE row

\* Screen.uv_to_xyz.  A list or tuple becomes an array with one more
\* leading axis; rows of one entry broadcast against screen_center, rows
\* of more than two entries do not (ValueError).  A list of N points is
\* then of shape (1, N, 2): numpy.matmul raises ValueError for N # 2 and
\* numpy.hstack in _uv_prime_to_xyz raises ValueError for N = 2.
ScreenUvToXyzPoints(screen, uv_points) ==
    IF \E k \in 1..Len(uv_points.rows) : Len(uv_points.rows[k]) \notin {1, 2}
    THEN Err("ValueError")
    ELSE IF ~uv_points.array /\ uv_points.ndim = 2 THEN Err("ValueError")
    ELSE Ok([k \in 1..Len(uv_points.rows) |->
                ScreenUvToXyz(screen, BroadcastRow(uv_points.rows[k], 2)).val[1]])

\* Screen.xyz_to_uv.  Rows of one entry broadcast against position, rows
\* of two or more than three entries do not (ValueError); Rotation.apply
\* raises ValueError for the (1, N, 3) array of a list of N points, and
\* xyz[:, :2] raises IndexError for the 1-d result of a 1-d array.
ScreenXyzToUvPoints(screen, xyz_points) ==
    IF \E k \in 1..Len(xyz_points.rows) : Len(xyz_points.rows[k]) \notin {1, 3}
    THEN Err("ValueError")
    ELSE IF ~xyz_points.array /\ xyz_points.ndim = 2 THEN Err("ValueError")
    ELSE IF xyz_points.array /\ xyz_points.ndim = 1 THEN Err("IndexError")
    ELSE ScreenXyzToUv(screen, [k \in 1..Len(xyz_points.rows) |->
                                   BroadcastRow(xyz_points.rows[k], 3)])

\* screen.uv_to_xyz(uv_points) for either kind of screen.
UvToXyzPoints(screen, uv_points) ==
    IF screen.kind = "Screen" THEN ScreenUvToXyzPoints(screen, uv_points)
    ELSE HomographyUvToXyz(screen, [ndim |-> uv_points.ndim, rows |-> uv_points.rows])

\* screen.xyz_to_uv(xyz_points) for either kind of screen.
XyzToUvPoints(screen, xyz_points) ==
    IF screen.kind = "Screen" THEN ScreenXyzToUvPoints(screen, xyz_points)
    ELSE HomographyXyzToUv(screen, [ndim |-> xyz_points.ndim, rows |-> xyz_points.rows])

(***************************************************************************)
(* Specification of the point conversions                                  *)
(***************************************************************************)
\* Screens with pixels that are not square, and two homography screens.
PointScreens ==
    { ScreenInit(<<I(1), I(-2), I(3)>>, euler_angles,
                 [scalar |-> FALSE, ndim |-> 1, v |-> <<Q(1, 2), I(3)>>],
                 screen_center).val :
          euler_angles \in ScreenEulerAngles, screen_center \in ScreenCenters }
    \cup { HomographyScreen(I(10), homography) :
               homography \in {HomographyAffine, HomographyProjective} }

\* Points of one, two or three entries.
PointRows(n_entries) == SeqsOfLen({I(-1), I(2)}, n_entries)

\* One point, or 1..MaxPoints points of the same number of entries, as a
\* list or as an array.
PointArguments ==
    { [array |-> array, ndim |-> 1, rows |-> <<row>>] :
          array \in BOOLEAN, row \in UNION {PointRows(n) : n \in 1..3} }
    \cup { [array |-> array, ndim |-> 2, rows |-> rows] :
               array \in BOOLEAN,
               rows \in UNION {SeqsOfLen(PointRows(n), count) :
                                   n \in 1..3, count \in 1..MaxPoints} }

InitPoints ==
    /\ calls = <<>>
    /\ ret = NoRet
    /\ \E screen \in PointScreens : \E points \in PointArguments :
          heap = [screen |-> screen, points |-> points]
    /\ heap0 = heap

\* screen.uv_to_xyz(points)
DoPointsUvToXyz ==
    /\ calls = <<>>
    /\ calls' = <<"uv_to_xyz">>
    /\ ret' = UvToXyzPoints(heap.screen, heap.points)
    /\ UNCHANGED <<heap, heap0>>

\* screen.xyz_to_uv(points)
DoPointsXyzToUv ==
    /\ calls = <<>>
    /\ calls' = <<"xyz_to_uv">>
    /\ ret' = XyzToUvPoints(heap.screen, heap.points)
    /\ UNCHANGED <<heap, heap0>>

NextPoints ==
    \/ DoPointsUvToXyz
    \/ DoPointsXyzToUv

SpecPoints == InitPoints /\ [][NextPoints]_vars

(***************************************************************************)
(* Claims about point arguments                                            *)
(***************************************************************************)
\* The number of entries of the points of the argument.
PointEntries == {Len(heap.points.rows[k]) : k \in 1..Len(heap.points.rows)}

\* uv_to_xyz of point k of the argument alone, given as a list.
AloneUvToXyz(k) ==
    UvToXyzPoints(heap.screen,
                  [array |-> FALSE, ndim |-> 1, rows |-> <<heap.points.rows[k]>>])

\* C21: uv_to_xyz of a list, tuple or array of N uv points returns N rows,
\* row i being the conversion of point i alone, and uv_to_xyz of one
\* length-2 sequence returns one row, for both kinds of screen.
C21_BatchOfPoints ==
    (calls = <<"uv_to_xyz">> /\ PointEntries = {2}) =>
        /\ ret.ok
        /\ Len(ret.val) = Len(heap.points.rows)
        /\ \A k \in 1..Len(ret.val) :
              /\ Len(ret.val[k]) = 3
              /\ AloneUvToXyz(k) = Ok(<<ret.val[k]>>)

\* C21, the part that holds: the same for every argument but a list or
\* tuple of points given to a Screen.
C21_BatchOfPointsAsArray ==
    (/\ calls = <<"uv_to_xyz">>
     /\ PointEntries = {2}
     /\ (heap.screen.kind = "HomographyScreen" \/ heap.points.array
            \/ heap.points.ndim = 1)) =>
        /\ ret.ok
        /\ Len(ret.val) = Len(heap.points.rows)
        /\ \A k \in 1..Len(ret.val) :
              /\ Len(ret.val[k]) = 3
              /\ AloneUvToXyz(k) = Ok(<<ret.val[k]>>)

\* C22: uv_to_xyz of points that do not have 2 entries and xyz_to_uv of
\* points that do not have 3 entries raise, for both kinds of screen.
C22_WrongEntriesRejected ==
    /\ (calls = <<"uv_to_xyz">> /\ PointEntries # {2}) => ~ret.ok
    /\ (calls = <<"xyz_to_uv">> /\ PointEntries # {3}) => ~ret.ok

\* C22, the part that holds: a HomographyScreen rejects every wrong number
\* of entries with ValueError, a Screen every number but one.
C22_WrongEntriesRejectedButOne ==
    (/\ calls \in {<<"uv_to_xyz">>, <<"xyz_to_uv">>}
     /\ PointEntries # {IF calls = <<"uv_to_xyz">> THEN 2 ELSE 3}
     /\ (heap.screen.kind = "HomographyScreen" \/ PointEntries # {1})) =>
        ret = Err("ValueError")


(***************************************************************************)
(* Claims about the parametric conversion                                  *)
(***************************************************************************)
\* C23: for a Screen with euler_angles (0, 0, 0), uv_to_xyz((u, v)) is
\* (px - (v - cv) sv, py - (u - cu) su, pz) for screen_center (cu, cv),
\* pixel_size (su, sv) and position (px, py, pz).
C23_ZeroRotationConversion ==
    (/\ calls = <<"Screen", "uv_to_xyz">>
     /\ heap.args.euler_angles = <<I(0), I(0), I(0)>>) =>
        ret = Ok(<< << Sub(heap.screen.position[1],
                           Mul(Sub(heap.uv[2], heap.screen.screen_center[2]),
                               heap.screen.pixel_size[2])),
                       Sub(heap.screen.position[2],
                           Mul(Sub(heap.uv[1], heap.screen.screen_center[1]),
                               heap.screen.pixel_size[1])),
                       heap.screen.position[3] >> >>)

\* C23 (witness): position (1, -2, 3), pixel_size (-1, 3/2), screen_center
\* (2, -1/2) and uv = (1, -1) give (1 + 3/4, -2 - 1, 3).
C23_Witness ==
    /\ calls = <<"Screen", "uv_to_xyz">>
    /\ heap.args.euler_angles = <<I(0), I(0), I(0)>>
    /\ heap.screen.pixel_size = <<I(-1), Q(3, 2)>>
    /\ heap.screen.screen_center = <<I(2), Q(-1, 2)>>
    /\ heap.uv = <<I(1), I(-1)>>
    /\ ret = Ok(<< <<Q(7, 4), I(-3), I(3)>> >>)


(***************************************************************************)
(* Shearing homography  (camera_operations.py)                             *)
(***************************************************************************)
\* numpy.eye(4)
Eye4 == [i \in 1..4 |-> [j \in 1..4 |-> IF i = j THEN I(1) ELSE I(0)]]

\* A get_xy_shearing_homography that sets H[2, 0] and H[2, 1].
GetXyShearingHomographyTransposed(sx, sy) ==
    [Eye4 EXCEPT ![3][1] = sx, ![3][2] = sy]

\* get_xy_shearing_homography(sx, sy)
GetXyShearingHomography(sx, sy) ==
    [Eye4 EXCEPT ![1][3] = sx, ![2][3] = sy]

\* The shearing parameters of test_get_xy_shearing_homography, and a
\* fraction.
ShearingParameters == {I(0), I(1), I(-100), I(30), Q(1, 2)}

\* Homogeneous points (x, y, z, w), those with z = 0 among them.
HomogeneousPoints == SeqsOfLen({I(-1), I(0), I(2)}, 4)

InitShear ==
    /\ calls = <<>>
    /\ ret = NoRet
    /\ \E sx \in ShearingParameters : \E sy \in ShearingParameters :
       \E X0 \in HomogeneousPoints :
          heap = [sx |-> sx, sy |-> sy, X0 |-> X0]
    /\ heap0 = heap

\* shearing_homography = get_xy_shearing_homography(sx, sy)
DoGetXyShearingHomography ==
    /\ calls = <<>>
    /\ calls' = <<"get_xy_shearing_homography">>
    /\ ret' = Ok(GetXyShearingHomography(heap.sx, heap.sy))
    /\ UNCHANGED <<heap, heap0>>

\* X1 = shearing_homography @ X0
DoShearPoint ==
    /\ calls = <<"get_xy_shearing_homography">>
    /\ calls' = Append(calls, "matmul")
    /\ ret' = Ok(MatVec(ret.val, heap.X0))
    /\ UNCHANGED <<heap, heap0>>

NextShear ==
    \/ DoGetXyShearingHomography
    \/ DoShearPoint

SpecShear == InitShear /\ [][NextShear]_vars

\* C24: get_xy_shearing_homography(sx, sy) maps every homogeneous point
\* (x, y, z, w) to (x + sx z, y + sy z, z, w); a point with z = 0 is
\* unchanged.
C24_ShearsAlongZ ==
    calls = <<"get_xy_shearing_homography", "matmul">> =>
        /\ ret = Ok(<< Add(heap.X0[1], Mul(heap.sx, heap.X0[3])),
                       Add(heap.X0[2], Mul(heap.sy, heap.X0[3])),
                       heap.X0[3], heap.X0[4] >>)
        /\ heap.X0[3] = I(0) => ret = Ok(heap.X0)

\* C24 (witness): sx = -100, sy = 30 map (-1, 2, 2, -1) to (-201, 62, 2, -1).
C24_Witness ==
    /\ calls = <<"get_xy_shearing_homography", "matmul">>
    /\ heap.sx = I(-100)
    /\ heap.sy = I(30)
    /\ heap.X0 = <<I(-1), I(2), I(2), I(-1)>>
    /\ ret = Ok(<<I(-201), I(62), I(2), I(-1)>>)


(***************************************************************************)
(* fit  (calibration.py)                                                   *)
(*                                                                         *)
(* fit flattens the free ray node columns and the masked calibration       *)
(* entries into x0 and hands x0 and the closure x_to_structured to         *)
(* scipy.optimize.minimize, which evaluates the closure at x0 and at       *)
(* vectors of its own choice.                                              *)
(***************************************************************************)
\* ray_node_scaling = 1e-5
ray_node_scaling == Q(1, 100000)

\* ray_nodes_initial[:, [0, 1, 3, 4]] / ray_node_scaling, flattened.
RayUnknowns(ray_nodes_initial) ==
    Concat([r \in 1..Len(ray_nodes_initial) |->
               << Div(ray_nodes_initial[r][1], ray_node_scaling),
                  Div(ray_nodes_initial[r][2], ray_node_scaling),
                  Div(ray_nodes_initial[r][4], ray_node_scaling),
                  Div(ray_nodes_initial[r][5], ray_node_scaling) >>])

\* x0 of fit: the ray unknowns followed by the unscaled calibration
\* unknowns.
FitInitialVector(ray_nodes_initial, calibrations_initial, calibration_mask) ==
    LET Flat(unknowns) ==
            IF ~unknowns.ok THEN unknowns
            ELSE Ok(RayUnknowns(ray_nodes_initial) \o unknowns.val)
        Unscaled(arr) ==
            IF ~arr.ok THEN arr
            ELSE UnapplyCalibrationScaler(arr.val, DefaultCalibrationScaler,
                                          calibration_mask).ret
    IN  Flat(Unscaled(CalibrationToArray(calibrations_initial, calibration_mask)))

\* A trial_ray_nodes that overwrites columns 0 to 3.
TrialRayNodesFirstColumns(ray_nodes_initial, ray_node_inputs) ==
    [r \in 1..Len(ray_nodes_initial) |->
        << ray_node_inputs[4 * (r - 1) + 1], ray_node_inputs[4 * (r - 1) + 2],
           ray_node_inputs[4 * (r - 1) + 3], ray_node_inputs[4 * (r - 1) + 4],
           ray_nodes_initial[r][5], ray_nodes_initial[r][6] >>]

\* trial_ray_nodes: the copy of ray_nodes_initial with columns 0, 1, 3, 4
\* overwritten by the reshaped inputs.
TrialRayNodes(ray_nodes_initial, ray_node_inputs) ==
    [r \in 1..Len(ray_nodes_initial) |->
        << ray_node_inputs[4 * (r - 1) + 1], ray_node_inputs[4 * (r - 1) + 2],
           ray_nodes_initial[r][3],
           ray_node_inputs[4 * (r - 1) + 3], ray_node_inputs[4 * (r - 1) + 4],
           ray_nodes_initial[r][6] >>]

\* The loop of x_to_structured after 'count = 0', from position k of the
\* mask on: count is never advanced, so every True entry multiplies
\* calibration_array[0] by its scaler.
RECURSIVE RescaleLoop(_, _, _, _, _)
RescaleLoop(arr, scaler, calibration_mask, pos, k) ==
    IF k > Len(pos) THEN Ok(arr)
    ELSE LET p == pos[k]
             mfield == calibration_mask[p[1]].fields[p[2]]
         IN  IF ~mfield.v[p[3]]
             THEN RescaleLoop(arr, scaler, calibration_mask, pos, k + 1)
             ELSE IF arr = <<>> THEN Err("IndexError")
             ELSE LET s == ScalerAt(scaler, mfield.key, p[3])
                  IN  IF ~s.ok THEN s
                      ELSE RescaleLoop([arr EXCEPT ![1] = Mul(arr[1], s.val)],
                                       scaler, calibration_mask, pos, k + 1)

\* x_to_structured(x) of fit: (trial_ray_nodes, trial_calibrations).
XToStructured(x, ray_nodes_initial, calibrations_initial, calibration_mask) ==
    LET Structured(trial_calibrations) ==
            IF ~trial_calibrations.ok THEN trial_calibrations
            ELSE Ok([ray_nodes |->
                         TrialRayNodes(ray_nodes_initial,
                             [k \in 1..(4 * Len(ray_nodes_initial)) |->
                                 Mul(x[k], ray_node_scaling)]),
                     calibrations |-> trial_calibrations.val])
        Assembled(arr) ==
            IF ~arr.ok THEN arr
            ELSE Structured(ArrayToCalibration(arr.val, calibration_mask,
                                               calibrations_initial).ret)
        Rescaled(arr) ==
            IF ~arr.ok THEN arr
            ELSE IF Len(x) < 4 * Len(ray_nodes_initial) THEN Err("ValueError")
            ELSE Assembled(RescaleLoop(arr.val, DefaultCalibrationScaler,
                                       calibration_mask,
                                       Positions(calibration_mask), 1))
    IN  Rescaled(ApplyCalibrationScaler(
                     SubSeq(x, 4 * Len(ray_nodes_initial) + 1, Len(x)),
                     DefaultCalibrationScaler, calibration_mask).ret)

(***************************************************************************)
(* Specification of fit                                                    *)
(***************************************************************************)
\* Largest number of evaluations of x_to_structured in one fit.
MaxEvaluations == 2

\* ray_nodes_initial: one ray or two.
FitRayNodes ==
    { <<ErrorRays[1]>>, <<ErrorRays[2], <<I(1), I(2), I(12), I(-1), I(0), I(9)>> >> }

\* The vectors x_to_structured is evaluated at: x0, and x0 moved and
\* scaled.
TrialVectors(x0) ==
    { x0, [k \in 1..Len(x0) |-> Add(x0[k], I(1))],
      [k \in 1..Len(x0) |-> Mul(x0[k], Q(-1, 2))] }

InitFitting ==
    /\ calls = <<>>
    /\ ret = NoRet
    /\ \E n \in 1..MaxScreens : \E cal \in CalibrationsOf(n) :
       \E T \in TrueSetsOf(cal) : \E rays \in FitRayNodes :
          heap = [ray_nodes_initial |-> rays, calibrations_initial |-> cal,
                  calibration_mask |-> MaskOf(cal, T), x0 |-> <<>>, x |-> <<>>]
    /\ heap0 = heap

\* fit(...) up to the call of minimize: x0 is built.
DoFit ==
    /\ calls = <<>>
    /\ calls' = <<"fit">>
    /\ ret' = FitInitialVector(heap.ray_nodes_initial, heap.calibrations_initial,
                               heap.calibration_mask)
    /\ heap' = [heap EXCEPT !.x0 = IF ret'.ok THEN ret'.val ELSE <<>>]
    /\ UNCHANGED heap0

\* minimize (or fit, for the result of minimize) calls x_to_structured(x).
DoXToStructured ==
    /\ calls # <<>>
    /\ calls[1] = "fit"
    /\ Len(calls) <= MaxEvaluations
    /\ Len(calls) = 1 => ret.ok
    /\ \E x \in TrialVectors(heap.x0) :
          /\ heap' = [heap EXCEPT !.x = x]
          /\ ret' = XToStructured(x, heap.ray_nodes_initial,
                                  heap.calibrations_initial, heap.calibration_mask)
    /\ calls' = Append(calls, "x_to_structured")
    /\ UNCHANGED heap0

NextFitting ==
    \/ DoFit
    \/ DoXToStructured

SpecFit == InitFitting /\ [][NextFitting]_vars

(***************************************************************************)
(* Claims about fit                                                        *)
(***************************************************************************)
\* Whether two calibration dictionaries hold the same numbers at the
\* positions whose mask has the given value.
SameWhereMask(value, a, b) ==
    /\ Len(a) = Len(b)
    /\ \A s \in 1..Len(a) : \A f \in 1..Len(a[s].fields) :
       \A i \in 1..Len(a[s].fields[f].v) :
          heap.calibration_mask[s].fields[f].v[i] = value =>
              a[s].fields[f].v[i] = b[s].fields[f].v[i]

\* C25: the structures x_to_structured builds for any x keep the z of
\* every ray node and every calibration entry whose mask is False at the
\* initial value, and fit leaves ray_nodes_initial and
\* calibrations_initial as they were.
C25_FixedEntriesKept ==
    /\ heap.ray_nodes_initial = heap0.ray_nodes_initial
    /\ heap.calibrations_initial = heap0.calibrations_initial
    /\ (LastCall = "x_to_structured") =>
          /\ ret.ok
          /\ Len(ret.val.ray_nodes) = Len(heap0.ray_nodes_initial)
          /\ \A r \in 1..Len(ret.val.ray_nodes) :
                /\ ret.val.ray_nodes[r][3] = heap0.ray_nodes_initial[r][3]
                /\ ret.val.ray_nodes[r][6] = heap0.ray_nodes_initial[r][6]
          /\ SameWhereMask(FALSE, ret.val.calibrations, heap0.calibrations_initial)

\* C25 (witness): x_to_structured has been evaluated at a vector other
\* than x0, for two rays and a mask with two True entries, and the free
\* columns of the ray nodes differ from the initial ones.
C25_Witness ==
    /\ LastCall = "x_to_structured"
    /\ heap.x # heap.x0
    /\ Len(heap.ray_nodes_initial) = 2
    /\ Len(heap.x0) = 10
    /\ ret.ok
    /\ ret.val.ray_nodes[2][1] # heap.ray_nodes_initial[2][1]
    /\ ret.val.ray_nodes[2][3] = I(12)

\* C26: x_to_structured(x0) returns ray nodes equal to ray_nodes_initial
\* and a calibration equal to calibrations_initial, for every mask.
C26_InitialVectorRoundTrip ==
    (LastCall = "x_to_structured" /\ heap.x = heap.x0) =>
        /\ ret.ok
        /\ ret.val.ray_nodes = heap.ray_nodes_initial
        /\ SameWhereMask(TRUE, ret.val.calibrations, heap.calibrations_initial)
        /\ SameWhereMask(FALSE, ret.val.calibrations, heap.calibrations_initial)

\* C26, the part that holds: the ray nodes come back, and so does the
\* calibration when no True entry of the mask has a scaler other than 1.
C26_RoundTripUnitScalers ==
    (LastCall = "x_to_structured" /\ heap.x = heap.x0) =>
        /\ ret.ok
        /\ ret.val.ray_nodes = heap.ray_nodes_initial
        /\ (\A s \in 1..Len(heap.calibration_mask) :
            \A f \in 1..Len(heap.calibration_mask[s].fields) :
            \A i \in 1..Len(heap.calibration_mask[s].fields[f].v) :
               heap.calibration_mask[s].fields[f].v[i] =>
                   ScalerAt(DefaultCalibrationScaler,
                            heap.calibration_mask[s].fields[f].key, i) = Ok(I(1)))
           => SameWhereMask(TRUE, ret.val.calibrations, heap.calibrations_initial)


(***************************************************************************)
(* Specification of the flattening functions with a reordered mask         *)
(***************************************************************************)
\* A dict with the same items inserted in the opposite order.
ReversedItems(d) == [k \in 1..Len(d) |-> d[Len(d) + 1 - k]]

\* The mask with the same keys and values whose screens, or the fields of
\* whose screens, are listed in the opposite order.
ReorderedMask(mask, screens_reversed, fields_reversed) ==
    LET Fields(m) ==
            [s \in 1..Len(m) |->
                [name |-> m[s].name,
                 fields |-> IF fields_reversed THEN ReversedItems(m[s].fields)
                            ELSE m[s].fields]]
    IN  Fields(IF screens_reversed THEN ReversedItems(mask) ELSE mask)

\* A calibration, a mask with the same keys in the same or another order,
\* and the array calibration_to_array makes of them.
InitOrder ==
    /\ calls = <<>>
    /\ ret = NoRet
    /\ \E n \in 1..MaxScreens : \E cal \in CalibrationsOf(n) :
       \E T \in TrueSetsOf(cal) : \E other \in BOOLEAN :
       \E screens_reversed \in BOOLEAN : \E fields_reversed \in BOOLEAN :
          heap = [cal |-> cal,
                  mask |-> ReorderedMask(MaskOf(cal, T), screens_reversed,
                                         fields_reversed),
                  arr |-> CalibrationToArray(
                              cal, ReorderedMask(MaskOf(cal, T), screens_reversed,
                                                 fields_reversed)).val,
                  scaler |-> IF other THEN OtherCalibrationScaler
                             ELSE DefaultCalibrationScaler,
                  mid |-> <<>>]
    /\ heap0 = heap

SpecOrder == InitOrder /\ [][NextCalibration]_vars

\* The positions of the calibration whose mask entry is True, in the order
\* in which calibration_to_array appends their values.
FlattenedPositions ==
    SelectSeq(Positions(heap.cal),
              LAMBDA p : MaskAt(heap.mask, heap.cal[p[1]].name,
                                heap.cal[p[1]].fields[p[2]].key, p[3]).val)

\* scaler[field][i] of the field and index element k of the array was
\* taken from.
OriginScaler(k) ==
    ScalerAt(heap.scaler,
             heap.cal[FlattenedPositions[k][1]].fields[FlattenedPositions[k][2]].key,
             FlattenedPositions[k][3]).val

\* C27: apply_calibration_scaler multiplies, and unapply_calibration_scaler
\* divides, element k of the array of calibration_to_array by the scaler
\* entry of the field and index that element was taken from, in whatever
\* order the mask lists its screens and fields.
C27_ScalerOfOrigin ==
    /\ calls = <<"apply_calibration_scaler">> =>
          /\ ret.ok
          /\ Len(ret.val) = Len(FlattenedPositions)
          /\ \A k \in 1..Len(ret.val) :
                ret.val[k] = Mul(heap0.arr[k], OriginScaler(k))
    /\ calls = <<"calibration_to_array", "unapply_calibration_scaler">> =>
          /\ ret.ok
          /\ Len(ret.val) = Len(FlattenedPositions)
          /\ \A k \in 1..Len(ret.val) :
                ret.val[k] = Div(heap0.mid[k], OriginScaler(k))

\* C27, the part that holds: the same when the mask lists its screens and
\* fields in the order of the calibration.
C27_ScalerOfOriginSameOrder ==
    (/\ calls \in { <<"apply_calibration_scaler">>,
                    <<"calibration_to_array", "unapply_calibration_scaler">> }
     /\ \A s \in 1..Len(heap.cal) :
           /\ heap.mask[s].name = heap.cal[s].name
           /\ \A f \in 1..Len(heap.cal[s].fields) :
                 heap.mask[s].fields[f].key = heap.cal[s].fields[f].key) =>
        /\ ret.ok
        /\ Len(ret.val) = Len(FlattenedPositions)
        /\ \A k \in 1..Len(ret.val) :
              ret.val[k] = IF Len(calls) = 1
                           THEN Mul(heap0.arr[k], OriginScaler(k))
                           ELSE Div(heap0.mid[k], OriginScaler(k))


\* The sigmas of the screens whose slot of uv_points holds a detection.
SigmasOfDetections ==
    [j \in 1..Len(PresentIndices(heap.uv_points)) |->
        heap.sigmas.v[PresentIndices(heap.uv_points)[j]]]

\* The beam metrics of the ray fitted to the converted points with the
\* sigmas of the screens that detected them.
MetricsOfDetections ==
    LET Metrics(ray_nodes) ==
            IF ~ray_nodes.ok THEN ray_nodes
            ELSE Ok(<< ComputeBeamPosition(<<ray_nodes.val>>,
                                           heap.z_beam_position).val,
                       ComputeXyAngles(<<ray_nodes.val>>) >>)
    IN  Metrics(FitRay(FittedPoints, Sigmas(SigmasOfDetections)))

\* C28: compute_beam_metrics with one sigma per screen and a slot that is
\* None fits the detected points with the sigmas of the screens that have
\* a detection, weight j belonging to the screen of point j.
C28_SigmasOfDetectedScreens ==
    (/\ calls = <<"compute_beam_metrics">>
     /\ ~heap.sigmas.none
     /\ Len(heap.sigmas.v) = Len(heap.screens)
     /\ Len(heap.uv_points) = Len(heap.screens)
     /\ \E k \in 1..Len(heap.uv_points) : heap.uv_points[k].none
     /\ Len(PresentIndices(heap.uv_points)) >= 2) =>
        /\ heap.trace # <<>>
        /\ heap.trace[Len(heap.trace)].fn = "fit_ray"
        /\ ret = MetricsOfDetections

\* C28, the part that holds: with a detection in every slot the fit uses
\* the sigma of screen j for point j.
C28_SigmasWhenAllDetected ==
    (/\ calls = <<"compute_beam_metrics">>
     /\ ~heap.sigmas.none
     /\ Len(heap.sigmas.v) = Len(heap.screens)
     /\ Len(heap.uv_points) = Len(heap.screens)
     /\ \A k \in 1..Len(heap.uv_points) : ~heap.uv_points[k].none) =>
        /\ heap.trace # <<>>
        /\ heap.trace[Len(heap.trace)].fn = "fit_ray"
        /\ ret = MetricsOfDetections


(***************************************************************************)
(* LMScreenSaveTriggerer  (viewer/lmscreen_save_triggerer.py)              *)
(*                                                                         *)
(* The object is [latest_save_id, t_triggered, trigger_info]; trigger_info *)
(* is <<>> while the attribute does not exist, else the sequence of the    *)
(* one dict [count_id, t_triggered].  The directory listing that glob      *)
(* returns is the set of the count ids found; time.time() is an integer    *)
(* clock.                                                                  *)
(***************************************************************************)
\* Largest count id of a directory on disk.
MaxCountId == 2

\* Largest number of polls of one triggerer.
MaxPolls == 3

\* The constant of 'time.time() - 999'.
InitialAge == 999

\* count_id_from_path(dir_list[-1]) of the listing sorted by count id.
LatestCountId(count_ids) == CHOOSE c \in count_ids : \A d \in count_ids : d <= c

\* set_trigger_info(latest_file, count_id, t_triggered); latest_file is
\* named after count_id.
SetTriggerInfo(triggerer, count_id, t_triggered) ==
    [triggerer EXCEPT !.trigger_info =
        << [count_id |-> count_id, t_triggered |-> t_triggered] >>]

\* A poll that also triggers when the latest count id equals the
\* previous one.
PollTriggersOnEqual(triggerer, count_ids, now) ==
    IF count_ids = {} THEN Err("IndexError")
    ELSE IF LatestCountId(count_ids) >= triggerer.latest_save_id
    THEN Ok([SetTriggerInfo([triggerer EXCEPT
                                 !.latest_save_id = LatestCountId(count_ids)],
                            LatestCountId(count_ids), triggerer.t_triggered)
                EXCEPT !.t_triggered = now])
    ELSE Ok(triggerer)

\* LMScreenSaveTriggerer.poll with the count ids that glob finds and the
\* value of time.time(): the object after the call, or IndexError for an
\* empty listing (dir_list[-1]).
Poll(triggerer, count_ids, now) ==
    IF count_ids = {} THEN Err("IndexError")
    ELSE IF LatestCountId(count_ids) > triggerer.latest_save_id
    THEN Ok([SetTriggerInfo([triggerer EXCEPT
                                 !.latest_save_id = LatestCountId(count_ids)],
                            LatestCountId(count_ids), triggerer.t_triggered)
                EXCEPT !.t_triggered = now])
    ELSE Ok(triggerer)

\* LMScreenSaveTriggerer.__init__ (debug_mode False, experiment_path
\* exists): the attributes are set and poll() is called.
SaveTriggererInit(count_ids, now) ==
    Poll([latest_save_id |-> 0, t_triggered |-> now - InitialAge,
          trigger_info |-> <<>>],
         count_ids, now)

(***************************************************************************)
(* Specification of the polls of one triggerer                             *)
(***************************************************************************)
\* The listings a poll can find: any set of count ids, none included.
Listings == SUBSET (0..MaxCountId)

\* A clock reading at the start, later than InitialAge.
StartTime == 1000

InitTrigger ==
    /\ calls = <<>>
    /\ ret = NoRet
    /\ heap = [triggerer |-> <<>>, now |-> StartTime, polls |-> <<>>]
    /\ heap0 = heap

\* triggerer = LMScreenSaveTriggerer(experiment_path); polls records, for
\* every poll, the latest count id found and the object before and after.
DoSaveTriggererInit ==
    /\ calls = <<>>
    /\ calls' = <<"LMScreenSaveTriggerer">>
    /\ \E count_ids \in Listings :
          /\ ret' = SaveTriggererInit(count_ids, heap.now)
          /\ heap' = [heap EXCEPT
                 !.triggerer = IF ret'.ok THEN ret'.val ELSE <<>>,
                 !.now = heap.now + 1,
                 !.polls = IF ~ret'.ok THEN @
                           ELSE Append(@, [found |-> LatestCountId(count_ids),
                                           time |-> heap.now,
                                           before |-> [latest_save_id |-> 0,
                                                       t_triggered |-> heap.now - InitialAge,
                                                       trigger_info |-> <<>>],
                                           after |-> ret'.val])]
    /\ UNCHANGED heap0

\* triggerer.poll(), as start_monitoring calls it after every sleep; an
\* exception ends the loop.
DoPoll ==
    /\ calls # <<>>
    /\ Len(calls) <= MaxPolls
    /\ ret.ok
    /\ calls' = Append(calls, "poll")
    /\ \E count_ids \in Listings :
          /\ ret' = Poll(heap.triggerer, count_ids, heap.now)
          /\ heap' = [heap EXCEPT
                 !.triggerer = IF ret'.ok THEN ret'.val ELSE @,
                 !.now = heap.now + 1,
                 !.polls = IF ~ret'.ok THEN @
                           ELSE Append(@, [found |-> LatestCountId(count_ids),
                                           time |-> heap.now,
                                           before |-> heap.triggerer,
                                           after |-> ret'.val])]
    /\ UNCHANGED heap0

NextTrigger ==
    \/ DoSaveTriggererInit
    \/ DoPoll

SpecTrigger == InitTrigger /\ [][NextTrigger]_vars

(***************************************************************************)
(* Claims about the triggerer                                              *)
(***************************************************************************)
\* The largest count id that the polls before poll k found, 0 (the
\* latest_save_id of __init__) if there is none.
SeenBefore(k) ==
    LatestCountId({0} \cup {heap.polls[j].found : j \in 1..(k - 1)})

\* Whether poll k triggered: it set trigger_info and t_triggered.
Triggered(k) ==
    /\ heap.polls[k].after.trigger_info =
           << [count_id |-> heap.polls[k].found,
               t_triggered |-> heap.polls[k].before.t_triggered] >>
    /\ heap.polls[k].after.t_triggered = heap.polls[k].time
    /\ heap.polls[k].after.latest_save_id = heap.polls[k].found

ViewerTriggerers ==
    {SaveTriggererInit(count_ids, StartTime).val : count_ids \in Listings \ {{}}}

InitViewer ==
    /\ calls = <<>>
    /\ ret = NoRet
    /\ \E triggerer \in ViewerTriggerers :
          heap = [triggerer |-> triggerer,
                  now |-> StartTime + 1,
                  thread_pc |-> "not started",
                  viewer_pc |-> "not started",
                  previous_t_triggered |-> 0,
                  trigger_info |-> <<>>,
                  triggers |-> IF triggerer.trigger_info = <<>> THEN <<>>
                               ELSE << [count_id |-> triggerer.latest_save_id,
                                        t_triggered |-> triggerer.t_triggered] >>,
                  plots |-> <<>>]
    /\ heap0 = heap

\* viewer.py 47-51: previous_t_triggered is initialised and the trigger
\* thread is started.
DoStartMonitoring ==
    /\ heap.viewer_pc = "not started"
    /\ calls' = Append(calls, "start_monitoring")
    /\ heap' = [heap EXCEPT !.previous_t_triggered = heap.now - InitialAge,
                            !.now = heap.now + 1,
                            !.thread_pc = "poll",
                            !.viewer_pc = "if"]
    /\ UNCHANGED <<heap0, ret>>

\* Trigger thread, lmscreen_save_triggerer.py 53-63: the listing is read
\* and compared, and the new latest_save_id is stored.  An empty listing
\* raises IndexError, which ends the thread.
ThreadPoll ==
    /\ heap.thread_pc = "poll"
    /\ Len(SelectSeq(calls, LAMBDA c : c = "poll")) < MaxPolls
    /\ calls' = Append(calls, "poll")
    /\ \E count_ids \in Listings :
          heap' = IF count_ids = {}
                  THEN [heap EXCEPT !.thread_pc = "ended"]
                  ELSE IF LatestCountId(count_ids) > heap.triggerer.latest_save_id
                  THEN [heap EXCEPT !.triggerer.latest_save_id = LatestCountId(count_ids),
                                    !.thread_pc = "set_trigger_info"]
                  ELSE heap
    /\ UNCHANGED <<heap0, ret>>

\* Trigger thread, lmscreen_save_triggerer.py 64-65.
ThreadSetTriggerInfo ==
    /\ heap.thread_pc = "set_trigger_info"
    /\ heap' = [heap EXCEPT
           !.triggerer = SetTriggerInfo(heap.triggerer, heap.triggerer.latest_save_id,
                                        heap.triggerer.t_triggered),
           !.thread_pc = "t_triggered"]
    /\ UNCHANGED <<calls, heap0, ret>>

\* Trigger thread, lmscreen_save_triggerer.py 66: self.t_triggered =
\* time.time(), which ends the poll.
ThreadSetTTriggered ==
    /\ heap.thread_pc = "t_triggered"
    /\ heap' = [heap EXCEPT
           !.triggerer.t_triggered = heap.now,
           !.now = heap.now + 1,
           !.triggers = Append(@, [count_id |-> heap.triggerer.latest_save_id,
                                   t_triggered |-> heap.now]),
           !.thread_pc = "poll"]
    /\ UNCHANGED <<calls, heap0, ret>>

\* Viewer loop, viewer.py 53 (and the sleep of line 57 when the test
\* fails).
ViewerIf ==
    /\ heap.viewer_pc = "if"
    /\ heap' = [heap EXCEPT !.viewer_pc =
                   IF heap.triggerer.t_triggered > heap.previous_t_triggered
                   THEN "previous_t_triggered" ELSE "if"]
    /\ UNCHANGED <<calls, heap0, ret>>

\* Viewer loop, viewer.py 54.
ViewerSetPrevious ==
    /\ heap.viewer_pc = "previous_t_triggered"
    /\ heap' = [heap EXCEPT !.previous_t_triggered = heap.triggerer.t_triggered,
                            !.viewer_pc = "get_trigger_info"]
    /\ UNCHANGED <<calls, heap0, ret>>

\* Viewer loop, viewer.py 55: get_trigger_info returns self.trigger_info,
\* AttributeError if it was never set.
ViewerGetTriggerInfo ==
    /\ heap.viewer_pc = "get_trigger_info"
    /\ heap' = IF heap.triggerer.trigger_info = <<>>
               THEN [heap EXCEPT !.viewer_pc = "ended"]
               ELSE [heap EXCEPT !.trigger_info = heap.triggerer.trigger_info,
                                 !.viewer_pc = "update_plot"]
    /\ ret' = IF heap.triggerer.trigger_info = <<>> THEN Err("AttributeError") ELSE ret
    /\ UNCHANGED <<calls, heap0>>

\* Viewer loop, viewer.py 56-57: update_plot(trigger_info), then sleep.
ViewerUpdatePlot ==
    /\ heap.viewer_pc = "update_plot"
    /\ calls' = Append(calls, "update_plot")
    /\ heap' = [heap EXCEPT
           !.plots = Append(@, [trigger_info |-> heap.trigger_info[1],
                                observed |-> heap.previous_t_triggered]),
           !.viewer_pc = "if"]
    /\ UNCHANGED <<heap0, ret>>

NextViewer ==
    \/ DoStartMonitoring
    \/ ThreadPoll
    \/ ThreadSetTriggerInfo
    \/ ThreadSetTTriggered
    \/ ViewerIf
    \/ ViewerSetPrevious
    \/ ViewerGetTriggerInfo
    \/ ViewerUpdatePlot

SpecViewer == InitViewer /\ [][NextViewer]_vars

(***************************************************************************)
(* Claims about the viewer loop                                            *)
(***************************************************************************)
\* The count ids of the triggers whose t_triggered is t.
TriggersAt(t) ==
    {heap.triggers[k].count_id :
        k \in {j \in 1..Len(heap.triggers) : heap.triggers[j].t_triggered = t}}

\* C30: under every interleaving of the trigger thread and the viewer
\* loop, update_plot is never called twice with the same trigger_info,
\* and the trigger_info it gets is that of the trigger whose t_triggered
\* the loop observed.
C30_EachTriggerPlottedOnce ==
    /\ \A i, j \in 1..Len(heap.plots) :
          i # j => heap.plots[i].trigger_info # heap.plots[j].trigger_info
    /\ \A i \in 1..Len(heap.plots) :
          heap.plots[i].trigger_info.count_id \in TriggersAt(heap.plots[i].observed)

\* C30 (the part that holds): update_plot always gets a trigger_info
\* that a poll has set, never one older than the trigger whose
\* t_triggered the loop observed, and the same one at most twice.
C30_PlottedNotOlder ==
    /\ \A i \in 1..Len(heap.plots) :
          /\ TriggersAt(heap.plots[i].observed) # {}
          /\ \A c \in TriggersAt(heap.plots[i].observed) :
                heap.plots[i].trigger_info.count_id >= c
          /\ heap.plots[i].trigger_info.count_id <= heap.triggerer.latest_save_id
    /\ \A i, j, k \in 1..Len(heap.plots) :
          (i < j /\ j < k) =>
              ~(/\ heap.plots[i].trigger_info = heap.plots[j].trigger_info
                /\ heap.plots[j].trigger_info = heap.plots[k].trigger_info)
    /\ ret = NoRet

=============================================================================
